---- MODULE Spec2Model ----
(***************************************************************************)
(* A model of the core of the Jira MCP integration layer: the credential   *)
(* resolver and request executor of jira_api_helper.ts, the retry and      *)
(* pagination helpers of utils.ts, the search tools of the servers, the    *)
(* document transcoder, the field normalizer (both copies) and the cache.  *)
(* Each component has its own specification; the others stay idle in it.   *)
(*                                                                         *)
(* JavaScript values are represented as follows.  An optional value        *)
(* (possibly undefined) is a set with at most one element.  A JSON value   *)
(* is a record with a tag t; a property the object does not have is a      *)
(* field the record does not have.  A response body is represented by what *)
(* it contains: nothing, text that is not JSON, or the serialisation of a  *)
(* JSON value.                                                             *)
(***************************************************************************)
EXTENDS Integers, Sequences, FiniteSets, TLC

VARIABLES
    env,        \* process.env: the three configuration values
    op,         \* the domain operation in flight: its name and argument
    pc,         \* its position: "idle", "fetch" (awaiting fetch), "done"
    sent,       \* the HTTP requests it has issued, in order
    remote,     \* what the remote side answered to each of them
    sub,        \* how each jiraApiCall of the operation completed (its Result)
    outcome,    \* what the caller of the operation observed, if finished
    maxRetries, \* retryOperation: its maxRetries argument
    delayMs,    \* retryOperation: its delayMs argument
    attempt,    \* retryOperation: the loop variable
    retryPc,    \* retryOperation: "idle", "call" (awaiting the operation),
                \*   "wait" (awaiting the backoff timer), "done"
    calls,      \* how each invocation of the operation settled, in order
    waits,      \* the delay of each backoff timer set, in order
    retryOutcome, \* what the caller of retryOperation observed, if finished
    tool,       \* the tool handler in flight: its name and arguments
    toolPc,     \* its position: "idle", "fetch" (awaiting the search), "done"
    toolSent,   \* the requests it caused, each with its query parameters
    toolFetched, \* what the remote side answered, if it has
    toolResponse, \* the tool result handed to the caller, if finished
    adfArg,     \* the value given to convertToADF
    adfDoc,     \* how convertToADF completed, if it has
    adfText,    \* what extractTextFromADF made of the document, if called
    adfAgain,   \* what extractTextFromADF made of its own output, if called
    adfPc,      \* "idle", "converted", "extracted", "read", "reread"
    normImpl,   \* which cleanFieldGeneric was called: "utils", "cli", "none"
    normField,  \* the field value it was given
    normFieldName, \* the field name it was given, if any
    normResult, \* how it completed, if called
    normAgain,  \* how it completed on its own result, if called again
    cleanCall,  \* cleanJiraIssue or cleanJiraSearchResponse, and of which file
    cleanHeap,  \* the objects the call could reach, by address, after it
    cleanArg,   \* its argument: null, undefined or a reference to an object
    cleanBefore, \* the argument and everything below it, as it was at the call
    cleanResult, \* what the call returned
    transports, \* server.ts: the map from session id to transport (own keys)
    created,    \* the transports created so far: state and session id of each
    http,       \* the last request on /mcp and how the handler answered it
    pager,      \* a paging caller: its tool, its page size, the size of the
                \*   remote collection
    pagerPc,    \* "idle", "request", "decide", "stopped"
    pagerStartAt, \* the offset of its next request
    pagerOnce,  \* the offsets it has requested
    pagerRepeated, \* whether it has requested some offset more than once
    pagerPage,  \* the tool result of its last request, if any
    pagerEchoed, \* every page so far reported the requested startAt and maxResults
    pagerConsistent, \* every request so far was sent and was answered with the
                \*   page the remote collection has there
    now,        \* Date.now()
    cache,      \* SimpleCache: the map from key to {data, expiry}
    lastSet,    \* for each key, the last set since the last clear, if any
    cacheOp,    \* the last operation on the cache and what it returned
    flight,     \* for each concurrent call of retryOperation: its arguments,
                \*   loop variable, position, the timers it set and its outcome
    jsThread    \* the call occupying the thread between two steps, if any

apiVars == <<env, op, pc, sent, remote, sub, outcome>>
retryVars == <<maxRetries, delayMs, attempt, retryPc, calls, waits, retryOutcome>>
toolVars == <<tool, toolPc, toolSent, toolFetched, toolResponse>>
adfVars == <<adfArg, adfDoc, adfText, adfAgain, adfPc>>
normVars == <<normImpl, normField, normFieldName, normResult, normAgain>>
cacheVars == <<now, cache, lastSet, cacheOp>>
issueVars == <<cleanCall, cleanHeap, cleanArg, cleanBefore, cleanResult>>
sessionVars == <<transports, created, http>>
pagerVars == <<pager, pagerPc, pagerStartAt, pagerOnce, pagerRepeated, pagerPage,
               pagerEchoed, pagerConsistent>>
flightVars == <<flight, jsThread>>
libVars == <<adfVars, normVars, cacheVars, issueVars, sessionVars, pagerVars, flightVars>>
vars == <<apiVars, retryVars, toolVars, libVars>>

----------------------------------------------------------------------------
(* Values *)

Has(r, f) == f \in DOMAIN r

Ok(d) == [success |-> TRUE, data |-> d]
Fail(e) == [success |-> FALSE, error |-> e]

Return(v) == [kind |-> "return", value |-> v]
Throw(e) == [kind |-> "throw", exc |-> e]

\* new Error(message) and the built-in subclasses the runtime raises
NewError(cls, msg) == [isError |-> TRUE, class |-> cls, message |-> msg]

JiraApiError(msg, statusCode, response) ==
    [isError |-> TRUE, class |-> "JiraApiError", message |-> msg,
     statusCode |-> statusCode, response |-> response]

JiraAuthenticationError(msg) ==
    [isError |-> TRUE, class |-> "JiraAuthenticationError", message |-> msg]

JiraNotFoundError(resource, identifier) ==
    [isError |-> TRUE, class |-> "JiraNotFoundError",
     message |-> resource \o " not found: " \o identifier]

JNull == [t |-> "null"]

RECURSIVE Join(_, _)
\* Array.prototype.join on an array of strings
Join(items, sep) ==
    IF items = <<>> THEN ""
    ELSE IF Len(items) = 1 THEN items[1]
    ELSE items[1] \o sep \o Join(Tail(items), sep)

\* the length property of a JSON value; 0 stands for undefined, which
\* compares with > 0 the same way
JsLength(v) ==
    IF v.t = "array" THEN Len(v.items)
    ELSE IF v.t = "string" THEN Len(v.s)
    ELSE 0

\* JSON.parse of a body: the value it serialises, or a SyntaxError
JSONParse(text) ==
    IF text.kind = "json" THEN Return(text.value)
    ELSE Throw(NewError("SyntaxError", "Unexpected token"))

----------------------------------------------------------------------------
(* getJiraCredentials and withAuth *)

\* !x for an optional string; empty is the empty string in x's representation
\* ("" for a string, <<>> for a string kept as its characters)
Falsy(x, empty) == x = {} \/ x = {empty}

The(x) == CHOOSE v \in x : TRUE

\* String.prototype.replace(/\/$/, ''): drops one trailing separator
StripTrailingSlash(u) ==
    IF Len(u) > 0 /\ u[Len(u)] = "/" THEN SubSeq(u, 1, Len(u) - 1) ELSE u

\* a variant of getJiraCredentials that tests the three values together and
\* reports the first of them
getJiraCredentialsOneMessage(e) ==
    IF Falsy(e.apiToken, "") \/ Falsy(e.email, "") \/ Falsy(e.baseUrl, <<>>) THEN
        Fail(JiraAuthenticationError("JIRA_API_TOKEN environment variable is required"))
    ELSE
        Ok([email |-> The(e.email), apiToken |-> The(e.apiToken),
            baseUrl |-> StripTrailingSlash(The(e.baseUrl))])

getJiraCredentials(e) ==
    IF Falsy(e.apiToken, "") THEN
        Fail(JiraAuthenticationError("JIRA_API_TOKEN environment variable is required"))
    ELSE IF Falsy(e.email, "") THEN
        Fail(JiraAuthenticationError("JIRA_EMAIL environment variable is required"))
    ELSE IF Falsy(e.baseUrl, <<>>) THEN
        Fail(JiraAuthenticationError("JIRA_BASE_URL environment variable is required (e.g., https://yourcompany.atlassian.net)"))
    ELSE
        Ok([email |-> The(e.email), apiToken |-> The(e.apiToken),
            baseUrl |-> StripTrailingSlash(The(e.baseUrl))])

\* a variant of CatchAsResult that lets the exception through
CatchAsResultRethrow(completion) == completion

\* the catch clause shared by withAuth and jiraApiCall:
\* error instanceof Error ? error : new Error(String(error))
CatchAsResult(completion) ==
    IF completion.kind = "return" THEN completion
    ELSE Return(Fail(IF completion.exc.isError THEN completion.exc
                     ELSE NewError("Error", completion.exc.text)))

\* withAuth around an operation body that completed with `completion`
withAuth(completion) == CatchAsResult(completion)

----------------------------------------------------------------------------
(* jiraApiCall *)

ResponseOk(status) == status >= 200 /\ status <= 299

\* the request jiraApiCall builds; endpoint is kept beside the path made of it
Request(credentials, endpoint, method, hasBody) ==
    [base |-> credentials.baseUrl, path |-> "/rest/api/3" \o endpoint,
     endpoint |-> endpoint, method |-> method, hasBody |-> hasBody,
     auth |-> <<credentials.email, credentials.apiToken>>]

\* the inner try of the error branch: the provider's message, if the body
\* has one; any failure inside leaves the default message
ErrorMessage(response) ==
    LET default == "HTTP " \o ToString(response.status) \o ": " \o response.statusText
        parsed == JSONParse(response.body)
    IN  IF parsed.kind = "throw" THEN default
        ELSE LET errorData == parsed.value IN
             IF errorData.t = "null" THEN default  \* property read of null throws
             ELSE IF Has(errorData, "errorMessages")
                     /\ JsLength(errorData.errorMessages) > 0 THEN
                 IF errorData.errorMessages.t = "array"
                 THEN Join(errorData.errorMessages.items, ", ")
                 ELSE default                      \* a string has no join
             ELSE IF Has(errorData, "message") /\ errorData.message # "" THEN
                 errorData.message
             ELSE default

\* a variant of jiraApiCallError that lets a provider message list in the body
\* decide the kind before the status is looked at
jiraApiCallErrorByBody(endpoint, response) ==
    IF response.body.kind = "json" /\ response.body.value.t = "object"
       /\ Has(response.body.value, "errorMessages") THEN
        Fail(JiraApiError(ErrorMessage(response), response.status, response.body))
    ELSE IF response.status = 401 THEN
        Fail(JiraAuthenticationError("Authentication failed: " \o ErrorMessage(response)))
    ELSE IF response.status = 404 THEN
        Fail(JiraNotFoundError("Resource", endpoint))
    ELSE
        Fail(JiraApiError(ErrorMessage(response), response.status, response.body))

\* the branch for a response that is not ok: the status alone picks the error
jiraApiCallError(endpoint, response) ==
    IF response.status = 401 THEN
        Fail(JiraAuthenticationError("Authentication failed: " \o ErrorMessage(response)))
    ELSE IF response.status = 404 THEN
        Fail(JiraNotFoundError("Resource", endpoint))
    ELSE
        Fail(JiraApiError(ErrorMessage(response), response.status, response.body))

\* a variant of jiraApiCallSuccess that reports an undecodable body as a
\* remote error
jiraApiCallSuccessParseAsApiError(response) ==
    IF response.body.kind = "empty" THEN Return(Ok(JNull))
    ELSE LET data == JSONParse(response.body) IN
         IF data.kind = "throw"
         THEN Return(Fail(JiraApiError(data.exc.message, response.status, response.body)))
         ELSE Return(Ok(data.value))

\* a variant of jiraApiCallSuccess without the test for an empty body
jiraApiCallSuccessNoEmptyTest(response) ==
    LET data == JSONParse(response.body) IN
    IF data.kind = "throw" THEN data ELSE Return(Ok(data.value))

\* the branch for an ok response: null for an empty body, else the parsed body
jiraApiCallSuccess(response) ==
    IF response.body.kind = "empty" THEN Return(Ok(JNull))
    ELSE LET data == JSONParse(response.body) IN
         IF data.kind = "throw" THEN data ELSE Return(Ok(data.value))

\* the body of the outer try, once fetch has settled with `fetched`
jiraApiCallTry(endpoint, fetched) ==
    IF fetched.kind = "throw" THEN fetched
    ELSE IF ~ResponseOk(fetched.value.status)
         THEN Return(jiraApiCallError(endpoint, fetched.value))
         ELSE jiraApiCallSuccess(fetched.value)

jiraApiCall(endpoint, fetched) == CatchAsResult(jiraApiCallTry(endpoint, fetched))

----------------------------------------------------------------------------
(* retryOperation *)

DefaultMaxRetries == 3
DefaultDelayMs == 1000

\* the largest maxRetries the model passes
MaxRetriesBound == 4

MaxRetriesArgs == 0..MaxRetriesBound
DelayMsArgs == {0, 1, DefaultDelayMs}

\* what the operation can resolve with
OperationValues == {"v1", "v2"}

\* what the operation can reject with: Error instances, a string, an object
\* with a message property, and a value that is none of these
OperationFailures ==
    { NewError("Error", "e1"), NewError("FetchError", "e2"),
      [isError |-> FALSE, t |-> "string", text |-> "boom"],
      [isError |-> FALSE, t |-> "object", message |-> "from object"],
      [isError |-> FALSE, t |-> "number"] }

OperationSettlements ==
    { Return(v) : v \in OperationValues } \cup { Throw(f) : f \in OperationFailures }

\* a variant of Pow2 that multiplies where it should raise to a power
Pow2AsProduct(n) == 2 * n

RECURSIVE Pow2(_)
\* Math.pow(2, n) for a natural n
Pow2(n) == IF n = 0 THEN 1 ELSE 2 * Pow2(n - 1)

normalizeError(error) ==
    IF error.isError THEN error
    ELSE IF error.t = "string" THEN NewError("Error", error.text)
    ELSE IF error.t = "object" /\ Has(error, "message") THEN NewError("Error", error.message)
    ELSE NewError("Error", "Unknown error occurred")

\* the value of `throw lastError!` when the loop body never ran
Undefined == [isError |-> FALSE, t |-> "undefined"]

IdleRetry ==
    /\ maxRetries = DefaultMaxRetries
    /\ delayMs = DefaultDelayMs
    /\ attempt = 1
    /\ retryPc = "idle"
    /\ calls = <<>>
    /\ waits = <<>>
    /\ retryOutcome = {}

\* a caller invokes retryOperation: the loop starts at attempt 1 and calls the
\* operation, or ends at once when maxRetries admits no attempt
retryOperation(max, delay) ==
    /\ retryPc = "idle"
    /\ maxRetries' = max
    /\ delayMs' = delay
    /\ attempt' = 1
    /\ calls' = <<>>
    /\ waits' = <<>>
    /\ IF 1 <= max
       THEN retryPc' = "call" /\ retryOutcome' = {}
       ELSE retryPc' = "done" /\ retryOutcome' = {Throw(Undefined)}
    /\ UNCHANGED <<apiVars, toolVars, libVars>>

\* a variant of OperationSettles that keeps the first failure in lastError
OperationSettlesKeepFirst(settled) ==
    /\ retryPc = "call"
    /\ calls' = Append(calls, settled)
    /\ IF settled.kind = "return" THEN
           /\ retryOutcome' = {settled}
           /\ retryPc' = "done"
           /\ UNCHANGED waits
       ELSE LET lastError == normalizeError(Append(calls, settled)[1].exc) IN
            IF attempt = maxRetries THEN
                /\ retryOutcome' = {Throw(lastError)}
                /\ retryPc' = "done"
                /\ UNCHANGED waits
            ELSE
                /\ waits' = Append(waits, delayMs * Pow2(attempt - 1))
                /\ retryPc' = "wait"
                /\ UNCHANGED retryOutcome
    /\ UNCHANGED <<maxRetries, delayMs, attempt, apiVars, toolVars, libVars>>

\* the awaited operation settles: its value is returned, or its failure is
\* raised (last attempt) or followed by a backoff timer
OperationSettles(settled) ==
    /\ retryPc = "call"
    /\ calls' = Append(calls, settled)
    /\ IF settled.kind = "return" THEN
           /\ retryOutcome' = {settled}
           /\ retryPc' = "done"
           /\ UNCHANGED waits
       ELSE LET lastError == normalizeError(settled.exc) IN
            IF attempt = maxRetries THEN
                /\ retryOutcome' = {Throw(lastError)}
                /\ retryPc' = "done"
                /\ UNCHANGED waits
            ELSE
                /\ waits' = Append(waits, delayMs * Pow2(attempt - 1))
                /\ retryPc' = "wait"
                /\ UNCHANGED retryOutcome
    /\ UNCHANGED <<maxRetries, delayMs, attempt, apiVars, toolVars, libVars>>

\* the backoff timer fires: next iteration of the loop
BackoffElapses ==
    /\ retryPc = "wait"
    /\ attempt' = attempt + 1
    /\ retryPc' = "call"
    /\ UNCHANGED <<maxRetries, delayMs, calls, waits, retryOutcome, apiVars, toolVars, libVars>>

----------------------------------------------------------------------------
(* Pagination helpers.  A number that may be undefined is an optional value; *)
(* arithmetic on undefined gives NaN, and every comparison with NaN is false. *)

\* a variant of createPaginationInfo whose test also holds at the boundary
createPaginationInfoInclusive(startAt, maxResults, total) ==
    LET defined == startAt # {} /\ maxResults # {} /\ total # {}
        hasMore == defined /\ The(startAt) + The(maxResults) <= The(total)
    IN  [startAt |-> startAt, maxResults |-> maxResults, total |-> total,
         hasMore |-> hasMore,
         nextStartAt |-> IF hasMore THEN {The(startAt) + The(maxResults)} ELSE {}]

createPaginationInfo(startAt, maxResults, total) ==
    LET defined == startAt # {} /\ maxResults # {} /\ total # {}
        hasMore == defined /\ The(startAt) + The(maxResults) < The(total)
    IN  [startAt |-> startAt, maxResults |-> maxResults, total |-> total,
         hasMore |-> hasMore,
         nextStartAt |-> IF hasMore THEN {The(startAt) + The(maxResults)} ELSE {}]

\* !isLast for an optional boolean: true unless isLast is true
createTokenPaginationInfo(maxResults, isLast, nextPageToken) ==
    [maxResults |-> maxResults, hasMore |-> (isLast # {TRUE}), isLast |-> isLast,
     nextPageToken |-> nextPageToken]

----------------------------------------------------------------------------
(* The remote side and the configuration the model ranges over *)

EnvTokens == {{}, {"tok"}}
EnvEmails == {{}, {""}, {"me@x.org"}}
EnvBaseUrls == {{}, {<<>>}, {<<"h">>}, {<<"h", "/">>}, {<<"h", "/", "/">>}, {<<"/">>}}

Envs == [apiToken : EnvTokens, email : EnvEmails, baseUrl : EnvBaseUrls]

Statuses == {200, 204, 400, 401, 403, 404, 500}

StatusText(status) ==
    CASE status = 200 -> "OK"
      [] status = 204 -> "No Content"
      [] status = 400 -> "Bad Request"
      [] status = 401 -> "Unauthorized"
      [] status = 403 -> "Forbidden"
      [] status = 404 -> "Not Found"
      [] OTHER -> "Internal Server Error"

Bodies ==
    { [kind |-> "empty"],
      [kind |-> "garbage", text |-> "<html>"],
      [kind |-> "json", value |-> JNull],
      [kind |-> "json", value |-> [t |-> "object"]],
      [kind |-> "json", value |-> [t |-> "array", items |-> <<>>]],
      [kind |-> "json", value |->
          [t |-> "object",
           errorMessages |-> [t |-> "array", items |-> <<"m1", "m2">>]]],
      [kind |-> "json", value |->
          [t |-> "object", errorMessages |-> [t |-> "array", items |-> <<>>],
           message |-> "msg"]],
      [kind |-> "json", value |->
          [t |-> "object", errorMessages |-> [t |-> "string", s |-> "oops"]]] }

Responses ==
    { [status |-> st, statusText |-> StatusText(st), body |-> b] :
          st \in Statuses, b \in Bodies }

\* what fetch can reject with: node-fetch's FetchError, or a value that is
\* not an Error
TransportFailures ==
    { NewError("FetchError", "request failed, reason: ECONNREFUSED"),
      [isError |-> FALSE, text |-> "socket hang up"] }

\* every way the awaited fetch can settle
Fetched == { Return(r) : r \in Responses } \cup { Throw(f) : f \in TransportFailures }

----------------------------------------------------------------------------
(* Domain operations: withAuth around a body that calls jiraApiCall *)

OpNames == {"getProject", "deleteIssueLink", "createIssueLink", "updateIssue",
            "listFieldSummaries", "getConnectionInfo"}

OpArgs == {"K1"}

\* the first jiraApiCall of each operation: endpoint, method, body present
FirstCall(name, arg) ==
    CASE name = "getProject" ->
            [endpoint |-> "/project/" \o arg, method |-> "GET", hasBody |-> FALSE]
      [] name = "deleteIssueLink" ->
            [endpoint |-> "/issueLink/" \o arg, method |-> "DELETE", hasBody |-> FALSE]
      [] name = "createIssueLink" ->
            [endpoint |-> "/issueLink", method |-> "POST", hasBody |-> TRUE]
      [] name = "updateIssue" ->
            [endpoint |-> "/issue/" \o arg, method |-> "PUT", hasBody |-> TRUE]
      [] name = "listFieldSummaries" ->
            [endpoint |-> "/field", method |-> "GET", hasBody |-> FALSE]
      [] OTHER ->
            [endpoint |-> "/serverInfo", method |-> "GET", hasBody |-> FALSE]

\* result.data.map(...) of listFieldSummaries: a TypeError unless data is an array
listFieldSummariesMap(data) ==
    IF data.t = "array"
    THEN Return(Ok([t |-> "array", items |-> <<>>]))
    ELSE Throw(NewError("TypeError", "result.data.map is not a function"))

\* a variant of BodyAfter that reports a failed call with an error of its own
BodyAfterWithContext(name, credentials, results, c) ==
    IF c.kind = "throw" THEN c
    ELSE IF ~c.value.success
    THEN Return(Fail(NewError("Error", name \o " failed: " \o c.value.error.message)))
    ELSE IF name = "listFieldSummaries" THEN listFieldSummariesMap(c.value.data)
    ELSE IF name = "getConnectionInfo" THEN
        Return(Ok([serverInfo |-> results[1].value.data,
                   currentUser |-> c.value.data,
                   baseUrl |-> credentials.baseUrl, connected |-> TRUE]))
    ELSE c

\* the rest of an operation body after its last jiraApiCall completed with `c`
BodyAfter(name, credentials, results, c) ==
    IF c.kind = "throw" THEN c
    ELSE IF ~c.value.success THEN c
    ELSE IF name = "listFieldSummaries" THEN listFieldSummariesMap(c.value.data)
    ELSE IF name = "getConnectionInfo" THEN
        Return(Ok([serverInfo |-> results[1].value.data,
                   currentUser |-> c.value.data,
                   baseUrl |-> credentials.baseUrl, connected |-> TRUE]))
    ELSE c

\* a caller invokes a domain operation: withAuth resolves the credentials and,
\* if they are complete, the body issues its first request
Invoke(name, arg) ==
    /\ pc \in {"idle", "done"}
    /\ op' = [name |-> name, arg |-> arg]
    /\ remote' = <<>>
    /\ sub' = <<>>
    /\ LET credentialsResult == getJiraCredentials(env)
           call == FirstCall(name, arg)
       IN  IF ~credentialsResult.success THEN
               /\ sent' = <<>>
               /\ outcome' = {Return(credentialsResult)}
               /\ pc' = "done"
           ELSE
               /\ sent' = <<Request(credentialsResult.data, call.endpoint,
                                     call.method, call.hasBody)>>
               /\ outcome' = {}
               /\ pc' = "fetch"
    /\ UNCHANGED <<env, retryVars, toolVars, libVars>>

\* a variant of Settle in which a rejected fetch is issued once more
SettleWithRetry(fetched) ==
    /\ pc = "fetch"
    /\ LET credentials == getJiraCredentials(env).data
           c == jiraApiCall(sent[Len(sent)].endpoint, fetched)
       IN  /\ remote' = Append(remote, fetched)
           /\ IF fetched.kind = "throw" /\ Len(remote) = 0
              THEN /\ sent' = Append(sent, sent[Len(sent)])
                   /\ UNCHANGED <<pc, outcome, sub>>
              ELSE /\ sub' = Append(sub, c)
                   /\ outcome' = {withAuth(BodyAfter(op.name, credentials, sub, c))}
                   /\ pc' = "done"
                   /\ UNCHANGED sent
    /\ UNCHANGED <<env, op, retryVars, toolVars, libVars>>

\* the awaited fetch settles: jiraApiCall returns and the operation goes on,
\* to its second request (getConnectionInfo) or to its end
Settle(fetched) ==
    /\ pc = "fetch"
    /\ LET credentials == getJiraCredentials(env).data
           c == jiraApiCall(sent[Len(sent)].endpoint, fetched)
       IN  /\ remote' = Append(remote, fetched)
           /\ sub' = Append(sub, c)
           /\ IF /\ op.name = "getConnectionInfo"
                 /\ Len(sent) = 1
                 /\ c.kind = "return"
                 /\ c.value.success
              THEN /\ sent' = Append(sent, Request(credentials, "/myself", "GET", FALSE))
                   /\ UNCHANGED <<pc, outcome>>
              ELSE /\ outcome' = {withAuth(BodyAfter(op.name, credentials, sub, c))}
                   /\ pc' = "done"
                   /\ UNCHANGED sent
    /\ UNCHANGED <<env, op, retryVars, toolVars, libVars>>

----------------------------------------------------------------------------
(* The search operations and the tools that page through them *)

DefaultSearchMaxResults == 50

DefaultFields == <<"summary", "status", "assignee", "priority", "created", "updated">>

\* URLSearchParams.toString(), without the percent-encoding
QueryString(params) ==
    Join([i \in 1..Len(params) |-> params[i][1] \o "=" \o params[i][2]], "&")

\* the query parameters searchJiraIssuesUsingJql sets; a property the caller
\* left undefined is a field options does not have
searchJiraIssuesUsingJqlParams(jql, options) ==
    LET maxResults == IF Has(options, "maxResults") /\ options.maxResults # 0
                      THEN options.maxResults ELSE DefaultSearchMaxResults
        p1 == << <<"jql", jql>>, <<"maxResults", ToString(maxResults)>> >>
        p2 == IF Has(options, "startAt")
              THEN Append(p1, <<"startAt", ToString(options.startAt)>>) ELSE p1
        p3 == IF Has(options, "expand") /\ options.expand # <<>>
              THEN Append(p2, <<"expand", Join(options.expand, ",")>>) ELSE p2
        fields == IF Has(options, "fields") THEN options.fields ELSE DefaultFields
    IN  IF fields # <<>> THEN Append(p3, <<"fields", Join(fields, ",")>>) ELSE p3

\* the JQL searchIssues builds from its filters (project filter only)
searchIssuesJql(projectKey) ==
    IF projectKey # {} /\ projectKey # {""}
    THEN "project = \"" \o The(projectKey) \o "\""
    ELSE "order by updated DESC"

\* the query parameters of the search a tool call leads to
ToolParams(t) ==
    IF t.name = "jira_get_issues_using_jql" THEN
        searchJiraIssuesUsingJqlParams(The(t.jql),
            [maxResults |-> t.maxResults, expand |-> <<"renderedFields">>]
            @@ (IF t.nextPageToken = {} THEN <<>>
                ELSE [nextPageToken |-> The(t.nextPageToken)]))
    ELSE IF t.name = "jira_search_issues" THEN
        IF t.jql # {} /\ t.jql # {""} THEN
            searchJiraIssuesUsingJqlParams(The(t.jql),
                [maxResults |-> t.maxResults, startAt |-> t.startAt])
        ELSE
            searchJiraIssuesUsingJqlParams(searchIssuesJql(t.projectKey),
                [maxResults |-> t.maxResults, startAt |-> t.startAt,
                 fields |-> DefaultFields])
    ELSE <<>>

ToolEndpoint(t) ==
    IF t.name = "jira_get_fields" THEN "/field"
    ELSE "/search/jql?" \o QueryString(ToolParams(t))

makeMCPToolJSONSuccess(data) == [isError |-> FALSE, json |-> data]

makeMCPToolTextError(error) == [isError |-> TRUE, text |-> "Error: " \o error.message]

\* the TypeError a handler meets when it reads a property of null or undefined
PropertyOfNothing == NewError("TypeError", "Cannot read properties of undefined")

\* data.p for a JSON object kept with optional fields; undefined for any
\* other value that is not null
Prop(data, p) == IF data.t = "object" /\ Has(data, p) THEN data[p] ELSE {}

\* the success formatter of jira_get_issues_using_jql (server-stdio.ts)
jiraGetIssuesUsingJqlFormat(t, data) ==
    IF data.t = "null" \/ Prop(data, "issues") = {} THEN Throw(PropertyOfNothing)
    ELSE Return(makeMCPToolJSONSuccess(
            [message |-> IF The(Prop(data, "issues")) = 0
                         THEN "No issues found matching the JQL query"
                         ELSE "Issues retrieved successfully using JQL",
             pagination |-> createTokenPaginationInfo(Prop(data, "maxResults"),
                                Prop(data, "isLast"), Prop(data, "nextPageToken")),
             issues |-> Prop(data, "issues"),
             jql |-> t.jql,
             isLast |-> Prop(data, "isLast"),
             nextPageToken |-> Prop(data, "nextPageToken")]))

\* the success formatter of jira_search_issues (server.ts)
jiraSearchIssuesFormat(t, data) ==
    IF data.t = "null" \/ Prop(data, "issues") = {} THEN Throw(PropertyOfNothing)
    ELSE Return(makeMCPToolJSONSuccess(
            [pagination |-> createPaginationInfo(Prop(data, "startAt"),
                                Prop(data, "maxResults"), Prop(data, "total")),
             issues |-> Prop(data, "issues"),
             total |-> Prop(data, "total")]))

\* the success formatter of jira_get_fields (server-stdio.ts)
jiraGetFieldsFormat(t, data) ==
    IF data.t = "null" THEN Throw(PropertyOfNothing)
    ELSE Return(makeMCPToolJSONSuccess(
            [pagination |-> createPaginationInfo(Prop(data, "startAt"),
                                Prop(data, "maxResults"), Prop(data, "total")),
             fields |-> Prop(data, "fields"),
             total |-> Prop(data, "total")]))

\* handleResult inside the handler's try: the formatter on success, a text
\* error on failure, and the catch clause for anything the formatter throws
ToolHandler(t, result) ==
    LET formatted ==
            IF ~result.success THEN Return(makeMCPToolTextError(result.error))
            ELSE IF t.name = "jira_get_issues_using_jql"
                 THEN jiraGetIssuesUsingJqlFormat(t, result.data)
            ELSE IF t.name = "jira_search_issues"
                 THEN jiraSearchIssuesFormat(t, result.data)
            ELSE jiraGetFieldsFormat(t, result.data)
    IN  IF formatted.kind = "throw"
        THEN makeMCPToolTextError(normalizeError(formatted.exc))
        ELSE formatted.value

\* the Result of the domain operation behind a tool, once its request settled
ToolOperation(t, credentials, fetched) ==
    LET c == jiraApiCall(ToolEndpoint(t), fetched) IN
    IF t.name = "jira_get_fields"
    THEN withAuth(BodyAfter("listFieldSummaries", credentials, <<>>, c)).value
    ELSE IF t.name = "jira_search_issues" /\ (t.jql = {} \/ t.jql = {""})
    THEN withAuth(withAuth(c)).value
    ELSE withAuth(c).value

\* a caller invokes a search or listing tool: the domain operation resolves
\* the credentials and issues its request
ToolCall(t) ==
    /\ toolPc \in {"idle", "done"}
    /\ tool' = t
    /\ toolFetched' = {}
    /\ LET credentialsResult == getJiraCredentials(env) IN
       IF ~credentialsResult.success THEN
           /\ toolSent' = <<>>
           /\ toolResponse' = {ToolHandler(t, credentialsResult)}
           /\ toolPc' = "done"
       ELSE
           /\ toolSent' = <<[request |-> Request(credentialsResult.data,
                                         ToolEndpoint(t), "GET", FALSE),
                             params |-> ToolParams(t)]>>
           /\ toolResponse' = {}
           /\ toolPc' = "fetch"
    /\ UNCHANGED <<apiVars, retryVars, libVars>>

\* the request settles and the handler formats the tool result
ToolSettle(fetched) ==
    /\ toolPc = "fetch"
    /\ toolFetched' = {fetched}
    /\ toolResponse' =
           {ToolHandler(tool, ToolOperation(tool, getJiraCredentials(env).data, fetched))}
    /\ toolPc' = "done"
    /\ UNCHANGED <<tool, toolSent, apiVars, retryVars, libVars>>

\* a caller applies createPaginationInfo to an offset page triple
ApplyCreatePaginationInfo(startAt, maxResults, total) ==
    /\ toolPc \in {"idle", "done"}
    /\ tool' = [name |-> "createPaginationInfo", startAt |-> startAt,
                maxResults |-> maxResults, total |-> total]
    /\ toolSent' = <<>>
    /\ toolFetched' = {}
    /\ toolResponse' = {createPaginationInfo({startAt}, {maxResults}, {total})}
    /\ toolPc' = "done"
    /\ UNCHANGED <<apiVars, retryVars, libVars>>

\* the largest count (offset, page size, total) the model uses
MaxCount == 4

Counts == (0 - 1)..MaxCount

PageSizes == {2}

PageTokens == {"tokA", "tokB"}

ToolCalls ==
    { [name |-> "jira_get_issues_using_jql", jql |-> {"q1"}, maxResults |-> m,
       nextPageToken |-> tok] :
          m \in PageSizes, tok \in {{}} \cup {{k} : k \in PageTokens} }
    \cup
    { [name |-> "jira_search_issues", jql |-> q, projectKey |-> {"PRJ"},
       maxResults |-> m, startAt |-> st] :
          q \in {{}, {"q1"}}, m \in PageSizes, st \in {0, 2} }
    \cup
    { [name |-> "jira_get_fields"] }

\* what the remote search can answer with: any mix of the properties of the
\* two page contracts
Pages ==
    [t : {"object"}, maxResults : {{2}}, isLast : {{TRUE}, {FALSE}},
     nextPageToken : {{}, {"tokA"}}, startAt : {{}, {0}}, total : {{}, {5}},
     issues : {{}, {0}, {2}}]

ToolFetched ==
    { Return([status |-> 200, statusText |-> "OK",
              body |-> [kind |-> "json", value |-> page]]) : page \in Pages }
    \cup
    { Return([status |-> 200, statusText |-> "OK", body |-> b]) :
          b \in { [kind |-> "empty"], [kind |-> "garbage", text |-> "<html>"],
                  [kind |-> "json", value |-> [t |-> "array", items |-> <<>>]] } }
    \cup
    { Return([status |-> st, statusText |-> StatusText(st),
              body |-> [kind |-> "empty"]]) : st \in {401, 404, 500} }
    \cup
    { Throw(f) : f \in TransportFailures }

----------------------------------------------------------------------------
(* JavaScript values handled by the document transcoder and the field      *)
(* normalizer.  Every value carries its type in t; an object's properties  *)
(* are the other fields of its record.  A string is kept as the sequence   *)
(* of its pieces: each whitespace character is a piece, and so is each     *)
(* maximal run of other characters between them.                           *)

JUndefined == [t |-> "undefined"]

Str(pieces) == [t |-> "string", chars |-> pieces]

\* a string without whitespace
Word(w) == Str(<<w>>)

EmptyString == Str(<<>>)

Num(n) == [t |-> "number", n |-> n]

Bool(b) == [t |-> "boolean", b |-> b]

Arr(items) == [t |-> "array", items |-> items]

\* the own enumerable property names of an object
Keys(v) == DOMAIN v \ {"t"}

\* v[k] of a property access; undefined on a primitive or for a missing key
Get(v, k) == IF v.t = "object" /\ k \in Keys(v) THEN v[k] ELSE JUndefined

\* k in v
In(k, v) == v.t = "object" /\ k \in Keys(v)

\* ToBoolean
Truthy(v) ==
    CASE v.t = "undefined" -> FALSE
      [] v.t = "null" -> FALSE
      [] v.t = "boolean" -> v.b
      [] v.t = "number" -> v.n # 0
      [] v.t = "string" -> v.chars # <<>>
      [] OTHER -> TRUE

\* typeof v === 'object'
TypeofObject(v) == v.t \in {"object", "array", "null"}

\* \s of a regular expression, and the characters trim() removes
Whitespace == {" ", "\t", "\n"}

\* string concatenation
Concat(x, y) ==
    IF x = <<>> THEN y
    ELSE IF y = <<>> THEN x
    ELSE IF x[Len(x)] \in Whitespace \/ y[1] \in Whitespace THEN x \o y
    ELSE SubSeq(x, 1, Len(x) - 1) \o <<x[Len(x)] \o y[1]>> \o Tail(y)

RECURSIVE JoinStrings(_, _)
\* Array.prototype.join on strings
JoinStrings(parts, sep) ==
    IF parts = <<>> THEN <<>>
    ELSE IF Len(parts) = 1 THEN parts[1]
    ELSE Concat(Concat(parts[1], sep), JoinStrings(Tail(parts), sep))

RECURSIVE TrimStart(_)
TrimStart(s) ==
    IF s # <<>> /\ s[1] \in Whitespace THEN TrimStart(Tail(s)) ELSE s

RECURSIVE TrimEnd(_)
TrimEnd(s) ==
    IF s # <<>> /\ s[Len(s)] \in Whitespace
    THEN TrimEnd(SubSeq(s, 1, Len(s) - 1)) ELSE s

\* String.prototype.trim
Trim(s) == TrimEnd(TrimStart(s))

RECURSIVE ReplaceEachWhitespace(_)
\* a variant of ReplaceWhitespaceRuns for the pattern /\s/g
ReplaceEachWhitespace(s) ==
    IF s = <<>> THEN <<>>
    ELSE IF s[1] \in Whitespace THEN <<" ">> \o ReplaceEachWhitespace(Tail(s))
    ELSE <<s[1]>> \o ReplaceEachWhitespace(Tail(s))

RECURSIVE ReplaceWhitespaceRuns(_)
\* String.prototype.replace(/\s+/g, ' ')
ReplaceWhitespaceRuns(s) ==
    IF s = <<>> THEN <<>>
    ELSE IF s[1] \in Whitespace
         THEN <<" ">> \o ReplaceWhitespaceRuns(TrimStart(Tail(s)))
    ELSE <<s[1]>> \o ReplaceWhitespaceRuns(Tail(s))

RECURSIVE Digits(_)
\* the decimal digits of a natural number
Digits(n) == IF n < 10 THEN ToString(n) ELSE Digits(n \div 10) \o ToString(n % 10)

RECURSIVE StringOf(_)
\* String(v): the completion of ToString.  An object is converted by its
\* toString method; an own toString property that is not callable (every
\* value JSON can carry) hides Object.prototype.toString, valueOf gives no
\* primitive either, and the conversion throws a TypeError.
StringOf(v) ==
    CASE v.t = "string" -> Return(v.chars)
      [] v.t = "undefined" -> Return(<<"undefined">>)
      [] v.t = "null" -> Return(<<"null">>)
      [] v.t = "boolean" -> Return(IF v.b THEN <<"true">> ELSE <<"false">>)
      [] v.t = "number" ->
            Return(IF v.n < 0 THEN <<"-" \o Digits(0 - v.n)>> ELSE <<Digits(v.n)>>)
      [] v.t = "array" ->
            LET each == [i \in 1..Len(v.items) |->
                            IF v.items[i].t \in {"null", "undefined"}
                            THEN Return(<<>>) ELSE StringOf(v.items[i])]
            IN  IF \E i \in 1..Len(each) : each[i].kind = "throw"
                THEN each[CHOOSE i \in 1..Len(each) :
                              /\ each[i].kind = "throw"
                              /\ \A j \in 1..(i - 1) : each[j].kind = "return"]
                ELSE Return(JoinStrings([i \in 1..Len(each) |-> each[i].value], <<",">>))
      [] OTHER ->
            IF "toString" \in Keys(v)
            THEN Throw(NewError("TypeError", "Cannot convert object to primitive value"))
            ELSE Return(<<"[object", " ", "Object]">>)

----------------------------------------------------------------------------
(* The document transcoder: extractTextFromADF and convertToADF *)

\* the text a fragment contributes to Array.prototype.join
PartText(v) == IF v.t = "string" THEN v.chars ELSE StringOf(v).value

RECURSIVE extractTextFromADFNodes(_)
RECURSIVE TextParts(_)

\* a variant of SkippedKinds that lets media nodes through to the default case
SkippedKindsButMedia == {Word("mediaSingle"), Word("emoji")}

\* the node types the loop skips
SkippedKinds == {Word("mediaSingle"), Word("media"), Word("emoji")}

\* what a node that recurses into its children pushes
ContentPart(node) ==
    IF Get(node, "content").t = "array"
    THEN LET text == extractTextFromADFNodes(Get(node, "content").items)
         IN  IF text # <<>> THEN <<text>> ELSE <<>>
    ELSE <<>>

\* textParts after the loop over nodes
TextParts(nodes) ==
    IF nodes = <<>> THEN <<>>
    ELSE LET node == Head(nodes)
             type == Get(node, "type")
             pushed ==
                 IF ~Truthy(node) THEN <<>>
                 ELSE IF type \in {Word("paragraph"), Word("heading"), Word("listItem")}
                      THEN ContentPart(node)
                 ELSE IF type = Word("text")
                      THEN IF Truthy(Get(node, "text"))
                           THEN <<PartText(Get(node, "text"))>> ELSE <<>>
                 ELSE IF type = Word("hardBreak") THEN << <<" ">> >>
                 ELSE IF type \in {Word("bulletList"), Word("orderedList"),
                                   Word("blockquote")}
                      THEN ContentPart(node)
                 ELSE IF type \in SkippedKinds THEN <<>>
                 ELSE ContentPart(node)
         IN  pushed \o TextParts(Tail(nodes))

extractTextFromADFNodes(nodes) ==
    Trim(ReplaceWhitespaceRuns(JoinStrings(TextParts(nodes), <<" ">>)))

\* a variant of extractTextFromADF without the test for a string
extractTextFromADFNoString(adfContent) ==
    IF ~Truthy(adfContent) THEN <<>>
    ELSE IF Get(adfContent, "type") = Word("doc")
            /\ Get(adfContent, "content").t = "array"
         THEN extractTextFromADFNodes(Get(adfContent, "content").items)
    ELSE IF adfContent.t = "array" THEN extractTextFromADFNodes(adfContent.items)
    ELSE <<>>

\* the string extractTextFromADF returns
extractTextFromADF(adfContent) ==
    IF ~Truthy(adfContent) THEN <<>>
    ELSE IF adfContent.t = "string" THEN adfContent.chars
    ELSE IF Get(adfContent, "type") = Word("doc")
            /\ Get(adfContent, "content").t = "array"
         THEN extractTextFromADFNodes(Get(adfContent, "content").items)
    ELSE IF adfContent.t = "array" THEN extractTextFromADFNodes(adfContent.items)
    ELSE <<>>

\* the object with the properties of v whose names are in keys
Pick(v, keys) == [k \in (DOMAIN v \cap (keys \cup {"t"})) |-> v[k]]

\* an optional member of a zod object: absent, or of the type of its schema
Optional(v, k, type) == ~In(k, v) \/ v[k].t \in {"undefined", type}

NodeKeys == {"type", "content", "text", "marks", "attrs"}

\* the element schema of ADFDocumentSchema.content
NodeSchemaAccepts(node) ==
    /\ node.t = "object"
    /\ Get(node, "type").t = "string"
    /\ Optional(node, "content", "array")
    /\ Optional(node, "text", "string")
    /\ Optional(node, "marks", "array")
    /\ Optional(node, "attrs", "object")

\* ADFDocumentSchema.safeParse(input).success
ADFDocumentSchemaAccepts(input) ==
    /\ input.t = "object"
    /\ Get(input, "version").t \in {"undefined", "number"}
    /\ Get(input, "type") = Word("doc")
    /\ Get(input, "content").t = "array"
    /\ \A i \in 1..Len(input.content.items) : NodeSchemaAccepts(input.content.items[i])

\* ADFDocumentSchema.safeParse(input).data for an accepted input: a zod object
\* schema strips the keys it does not declare, and default(1) fills a missing
\* version
ADFDocumentSchemaData(input) ==
    [t |-> "object",
     version |-> IF Get(input, "version").t = "undefined" THEN Num(1) ELSE input.version,
     type |-> input.type,
     content |-> Arr([i \in 1..Len(input.content.items) |->
                        Pick(input.content.items[i], NodeKeys)])]

\* the document convertToADF builds around a string
WrapText(text) ==
    [t |-> "object", type |-> Word("doc"), version |-> Num(1),
     content |-> Arr(<< [t |-> "object", type |-> Word("paragraph"),
                         content |-> Arr(<< [t |-> "object", type |-> Word("text"),
                                             text |-> Str(text)] >>)] >>)]

\* the completion of convertToADF(input)
convertToADF(input) ==
    IF input.t \in {"object", "array"} /\ ADFDocumentSchemaAccepts(input)
    THEN Return(ADFDocumentSchemaData(input))
    ELSE LET text == IF input.t = "string" THEN Return(input.chars) ELSE StringOf(input)
         IN  IF text.kind = "throw" THEN text ELSE Return(WrapText(text.value))

\* the strings the transcoder is given: every string of at most MaxTextLen
\* characters over TextAlphabet
MaxTextLen == 4

TextAlphabet == {"a", "b", " ", "\t"}

RECURSIVE Pieces(_)
\* the string made of the given characters
Pieces(characters) ==
    IF characters = <<>> THEN <<>>
    ELSE Concat(<<Head(characters)>>, Pieces(Tail(characters)))

Texts == { Pieces(c) : c \in UNION { [1..n -> TextAlphabet] : n \in 0..MaxTextLen } }

TextNode(text) == [t |-> "object", type |-> Word("text"), text |-> Str(text)]

Paragraph(nodes) == [t |-> "object", type |-> Word("paragraph"), content |-> Arr(nodes)]

Doc(nodes) == [t |-> "object", type |-> Word("doc"), version |-> Num(1), content |-> Arr(nodes)]

\* document trees the schema accepts
AcceptedDocuments ==
    { Doc(<<>>),
      Doc(<<Paragraph(<<TextNode(<<"a", " ", "b">>)>>)>>),
      Doc(<<Paragraph(<<TextNode(<<"a">>), [t |-> "object", type |-> Word("hardBreak")],
                        TextNode(<<"b">>)>>),
            [t |-> "object", type |-> Word("heading"),
             attrs |-> [t |-> "object", level |-> Num(2)],
             content |-> Arr(<<TextNode(<<"b">>)>>)]>>),
      \* no version
      [t |-> "object", type |-> Word("doc"), content |-> Arr(<<Paragraph(<<TextNode(<<"a">>)>>)>>)],
      \* a key the schema does not declare, at the root and in a node
      [t |-> "object", type |-> Word("doc"), version |-> Num(1), content |-> Arr(<<>>),
       extra |-> Num(1)],
      Doc(<<[t |-> "object", type |-> Word("paragraph"), localId |-> Word("p1"),
             content |-> Arr(<<TextNode(<<"a">>)>>)]>>),
      \* a second-level node with such a key: only the first level is declared
      Doc(<<Paragraph(<<[t |-> "object", type |-> Word("text"), text |-> Str(<<"a">>),
                         localId |-> Word("t1")]>>)>>) }

\* objects and arrays the schema rejects
RejectedObjects ==
    { [t |-> "object"],
      [t |-> "object", type |-> Word("page"), version |-> Num(1), content |-> Arr(<<>>)],
      [t |-> "object", type |-> Word("doc"), version |-> Word("1"), content |-> Arr(<<>>)],
      [t |-> "object", type |-> Word("doc"), version |-> Num(1), content |-> Word("a")],
      [t |-> "object", type |-> Word("doc"), version |-> Num(1),
       content |-> Arr(<<[t |-> "object", text |-> Str(<<"a">>)]>>)],
      [t |-> "object", type |-> Word("doc"), version |-> Num(1),
       content |-> Arr(<<[t |-> "object", type |-> Word("text"), text |-> Num(5)]>>)],
      [t |-> "object", toString |-> Word("x")],
      Arr(<<>>),
      Arr(<<Word("a"), JNull, Num(12)>>),
      Arr(<<[t |-> "object", toString |-> Num(1)]>>) }

Primitives == {JUndefined, JNull, Num(0), Num(7), Bool(TRUE), Bool(FALSE)}

AdfInputs ==
    { Str(s) : s \in Texts } \cup Primitives \cup AcceptedDocuments \cup RejectedObjects

IdleAdf ==
    /\ adfPc = "idle"
    /\ adfArg = JUndefined
    /\ adfDoc = {}
    /\ adfText = {}
    /\ adfAgain = {}

\* a caller converts a description or comment body to a document
ConvertToADF(input) ==
    /\ adfPc = "idle"
    /\ adfPc' = "converted"
    /\ adfArg' = input
    /\ adfDoc' = {convertToADF(input)}
    /\ adfText' = {}
    /\ adfAgain' = {}
    /\ UNCHANGED <<apiVars, retryVars, toolVars, normVars, cacheVars, issueVars, sessionVars, pagerVars, flightVars>>

\* the document is read back as plain text
ExtractTextFromADF ==
    /\ adfPc = "converted"
    /\ \E c \in adfDoc :
          /\ c.kind = "return"
          /\ adfText' = {extractTextFromADF(c.value)}
    /\ adfPc' = "extracted"
    /\ UNCHANGED <<adfArg, adfDoc, adfAgain, apiVars, retryVars, toolVars, normVars, cacheVars, issueVars, sessionVars, pagerVars, flightVars>>

\* the kinds of node the reader is given
NodeKinds == {"paragraph", "panel", "mediaSingle", "media", "emoji"}

Node(kind, nodes) == [t |-> "object", type |-> Word(kind), content |-> Arr(nodes)]

\* nodes without children
Leaves ==
    { TextNode(<<"a">>), TextNode(<<"m", " ">>),
      [t |-> "object", type |-> Word("hardBreak")],
      [t |-> "object", type |-> Word("emoji"),
       attrs |-> [t |-> "object", shortName |-> Word(":m:")], text |-> Word("m")] }

\* the trees the reader is given have at most MaxTreeDepth levels of nodes
\* with children
MaxTreeDepth == 2

RECURSIVE Trees(_)
\* the nodes with at most depth levels of children below them
Trees(depth) ==
    IF depth = 0 THEN Leaves
    ELSE LET below == Trees(depth - 1)
         IN  below
             \cup { Node(kind, <<x>>) : kind \in NodeKinds, x \in below }
             \cup { Node(kind, <<x, y>>) : kind \in NodeKinds, x \in Leaves, y \in Leaves }

\* what extractTextFromADF is given: document trees, node arrays, strings,
\* null and undefined
ReaderInputs ==
    { Doc(<<x>>) : x \in Trees(MaxTreeDepth) }
    \cup { Doc(<<x, y>>) : x \in Trees(1), y \in Leaves }
    \cup { Arr(<<x, y>>) : x \in Trees(1), y \in Leaves }
    \cup { Str(s) : s \in Texts }
    \cup {JNull, JUndefined, Arr(<<>>), Doc(<<>>)}

\* cleanJiraIssue or a comment transformer reads a field as plain text
ExtractTextFromADFOf(adfContent) ==
    /\ adfPc = "idle"
    /\ adfPc' = "read"
    /\ adfArg' = adfContent
    /\ adfDoc' = {}
    /\ adfText' = {extractTextFromADF(adfContent)}
    /\ adfAgain' = {}
    /\ UNCHANGED <<apiVars, retryVars, toolVars, normVars, cacheVars, issueVars, sessionVars, pagerVars, flightVars>>

\* the text is read again, as happens when a cleaned issue is cleaned again
ExtractTextFromADFAgain ==
    /\ adfPc = "read"
    /\ \E text \in adfText : adfAgain' = {extractTextFromADF(Str(text))}
    /\ adfPc' = "reread"
    /\ UNCHANGED <<adfArg, adfDoc, adfText, apiVars, retryVars, toolVars, normVars, cacheVars, issueVars, sessionVars, pagerVars, flightVars>>

----------------------------------------------------------------------------
(* The field normalizer: cleanFieldGeneric of utils.ts, used by the servers, *)
(* and the copy of it in cli-get-issue.ts, which has a comment rule and a    *)
(* recursive last rule.  A field name that may be undefined is an optional   *)
(* value.                                                                    *)

\* v || ''
OrEmpty(v) == IF Truthy(v) THEN v ELSE EmptyString

\* a variant of cleanFieldWithName that keeps the key under any field name
cleanFieldWithNameAnyField(field, fieldName) ==
    IF ~Truthy(field) \/ ~TypeofObject(field) THEN field
    ELSE IF In("name", field) THEN
        IF Truthy(Get(field, "key")) THEN Pick(field, {"name", "key"})
        ELSE Pick(field, {"name"})
    ELSE field

cleanFieldWithName(field, fieldName) ==
    IF ~Truthy(field) \/ ~TypeofObject(field) THEN field
    ELSE IF fieldName = {"project"} /\ In("name", field) THEN
        IF Truthy(Get(field, "key")) THEN Pick(field, {"name", "key"})
        ELSE Pick(field, {"name"})
    ELSE IF In("name", field) THEN Pick(field, {"name"})
    ELSE field

\* a variant of cleanFieldWithValue that emits the value under the key name
cleanFieldWithValueAsName(field) ==
    IF ~Truthy(field) \/ ~TypeofObject(field) THEN field
    ELSE IF In("value", field) THEN
        IF Truthy(Get(field, "id"))
        THEN [t |-> "object", name |-> field.value, id |-> field.id]
        ELSE [t |-> "object", name |-> field.value]
    ELSE field

cleanFieldWithValue(field) ==
    IF ~Truthy(field) \/ ~TypeofObject(field) THEN field
    ELSE IF In("value", field) THEN
        IF Truthy(Get(field, "id")) THEN Pick(field, {"value", "id"})
        ELSE Pick(field, {"value"})
    ELSE field

\* a variant of cleanUserField that spreads the field under the two defaults
cleanUserFieldSpread(field) ==
    [k \in DOMAIN field \cup {"emailAddress", "displayName"} |->
        IF k \in {"emailAddress", "displayName"} THEN OrEmpty(Get(field, k))
        ELSE field[k]]

\* the object the user-field rule returns
cleanUserField(field) ==
    [t |-> "object",
     emailAddress |-> OrEmpty(Get(field, "emailAddress")),
     displayName |-> OrEmpty(Get(field, "displayName"))]

RECURSIVE cleanFieldGeneric(_, _)
\* cleanFieldGeneric of utils.ts
cleanFieldGeneric(field, fieldName) ==
    IF ~Truthy(field) \/ ~TypeofObject(field) THEN field
    ELSE IF field.t = "array" THEN
        Arr([i \in 1..Len(field.items) |-> cleanFieldGeneric(field.items[i], fieldName)])
    ELSE IF In("emailAddress", field) \/ In("displayName", field) THEN
        cleanUserField(field)
    ELSE IF In("type", field) /\ field.type = Word("doc") THEN
        Str(extractTextFromADF(field))
    ELSE IF In("name", field) THEN cleanFieldWithName(field, fieldName)
    ELSE IF In("value", field) THEN cleanFieldWithValue(field)
    ELSE field

\* a loop over the completions in each stops at the first throw
AnyThrows(each) == \E k \in DOMAIN each : each[k].kind = "throw"

\* the values a loop collects when nothing throws
ValuesOf(each) == [k \in DOMAIN each |-> each[k].value]

\* one element of the comments array as cleanCommentField rewrites it;
\* comment.author of null or undefined throws a TypeError
cleanComment(comment) ==
    IF comment.t \in {"null", "undefined"} THEN Throw(PropertyOfNothing)
    ELSE LET body == Get(comment, "body")
             text == extractTextFromADF(body)
         IN  Return([t |-> "object",
                     authorEmail |-> OrEmpty(Get(Get(comment, "author"), "emailAddress")),
                     body |-> IF text # <<>> THEN Str(text) ELSE OrEmpty(body)])

\* cleanCommentField of cli-get-issue.ts
cleanCommentField(commentField) ==
    IF ~Truthy(commentField) \/ ~TypeofObject(commentField) THEN Return(commentField)
    ELSE IF Get(commentField, "comments").t = "array" THEN
        LET each == [i \in 1..Len(commentField.comments.items) |->
                        cleanComment(commentField.comments.items[i])]
        IN  IF AnyThrows(each) THEN Throw(PropertyOfNothing)
            ELSE Return([t |-> "object", comments |-> Arr(ValuesOf(each))])
    ELSE Return(commentField)

RECURSIVE cleanFieldGenericCli(_, _)
\* cleanFieldGeneric of cli-get-issue.ts
cleanFieldGenericCli(field, fieldName) ==
    IF ~Truthy(field) \/ ~TypeofObject(field) THEN Return(field)
    ELSE IF fieldName = {"comment"} THEN cleanCommentField(field)
    ELSE IF field.t = "array" THEN
        LET each == [i \in 1..Len(field.items) |->
                        cleanFieldGenericCli(field.items[i], fieldName)]
        IN  IF AnyThrows(each) THEN Throw(PropertyOfNothing)
            ELSE Return(Arr(ValuesOf(each)))
    ELSE IF In("emailAddress", field) \/ In("displayName", field) THEN
        Return(cleanUserField(field))
    ELSE IF In("type", field) /\ field.type = Word("doc") THEN
        Return(Str(extractTextFromADF(field)))
    ELSE IF In("name", field) THEN Return(cleanFieldWithName(field, fieldName))
    ELSE IF In("value", field) THEN Return(cleanFieldWithValue(field))
    ELSE LET each == [key \in Keys(field) |-> cleanFieldGenericCli(field[key], {key})]
         IN  IF AnyThrows(each) THEN Throw(PropertyOfNothing)
             ELSE Return([key \in DOMAIN field |->
                             IF key = "t" THEN field.t ELSE each[key].value])

User == [t |-> "object", displayName |-> Word("A"), emailAddress |-> Word("a@x.com"),
         accountId |-> Word("u1")]

Description == Doc(<<Paragraph(<<TextNode(<<"a", " ", " ", "b">>)>>)>>)

\* field values as the remote system returns them
FieldValues ==
    Primitives \cup
    { EmptyString, Word("x"),
      \* user fields
      User,
      [t |-> "object", displayName |-> Word("A")],
      [t |-> "object", displayName |-> Word("A"), emailAddress |-> JNull],
      [t |-> "object", displayName |-> Word("A"), name |-> Word("a"), key |-> Word("K")],
      [t |-> "object", emailAddress |-> Word("a@x.com"), type |-> Word("doc"),
       content |-> Arr(<<>>)],
      \* documents
      Description,
      [t |-> "object", type |-> Word("doc"), version |-> Num(1), name |-> Word("d"),
       content |-> Arr(<<Paragraph(<<TextNode(<<"a">>)>>)>>)],
      \* fields with a name
      [t |-> "object", name |-> Word("Bug")],
      [t |-> "object", name |-> Word("Bug"), key |-> Word("PRJ"), id |-> Word("10")],
      [t |-> "object", name |-> Word("Bug"), key |-> EmptyString],
      [t |-> "object", name |-> Word("Bug"), value |-> Word("v"), id |-> Word("10")],
      \* fields with a value
      [t |-> "object", value |-> Word("v")],
      [t |-> "object", value |-> Word("v"), id |-> Word("10"),
       child |-> [t |-> "object", value |-> Word("w")]],
      [t |-> "object", value |-> Word("v"), id |-> Num(0)],
      \* comment collections
      [t |-> "object", total |-> Num(1),
       comments |-> Arr(<<[t |-> "object", author |-> User, body |-> Description]>>)],
      [t |-> "object", name |-> Word("c"),
       comments |-> Arr(<<[t |-> "object", body |-> Word("x")]>>)],
      [t |-> "object", comments |-> Arr(<<JNull>>)],
      [t |-> "object", id |-> Word("10"),
       comment |-> [t |-> "object",
                    comments |-> Arr(<<[t |-> "object", author |-> User,
                                        body |-> Word("x")]>>)]],
      \* other objects
      [t |-> "object"],
      [t |-> "object", self |-> Word("u"), votes |-> Num(3)],
      [t |-> "object", self |-> Word("u"), reporter |-> User],
      [t |-> "object", parent |-> [t |-> "object", project |->
            [t |-> "object", name |-> Word("P"), key |-> Word("PRJ"), id |-> Word("1")]]],
      [t |-> "object", worklogs |-> Arr(<<[t |-> "object", comment |-> Description]>>)],
      \* arrays
      Arr(<<>>),
      Arr(<<User, [t |-> "object", name |-> Word("Bug"), key |-> Word("K")], JNull>>),
      Arr(<<[t |-> "object", watchers |-> Arr(<<User>>)]>>) }

FieldNames == {{}, {"project"}, {"comment"}, {"assignee"}}

IdleNorm ==
    /\ normImpl = "none"
    /\ normField = JUndefined
    /\ normFieldName = {}
    /\ normResult = {}
    /\ normAgain = {}

\* cleanJiraIssue of utils.ts hands a field to cleanFieldGeneric
CleanFieldGeneric(field, fieldName) ==
    /\ normImpl' = "utils"
    /\ normField' = field
    /\ normFieldName' = fieldName
    /\ normResult' = {Return(cleanFieldGeneric(field, fieldName))}
    /\ normAgain' = {}
    /\ UNCHANGED <<apiVars, retryVars, toolVars, adfVars, cacheVars, issueVars, sessionVars, pagerVars, flightVars>>

\* cleanJiraIssue of cli-get-issue.ts hands a field to its cleanFieldGeneric
CleanFieldGenericCli(field, fieldName) ==
    /\ normImpl' = "cli"
    /\ normField' = field
    /\ normFieldName' = fieldName
    /\ normResult' = {cleanFieldGenericCli(field, fieldName)}
    /\ normAgain' = {}
    /\ UNCHANGED <<apiVars, retryVars, toolVars, adfVars, cacheVars, issueVars, sessionVars, pagerVars, flightVars>>

\* a cleaned field is cleaned again under the same name, by the same copy
CleanFieldGenericAgain ==
    /\ normAgain = {}
    /\ \E c \in normResult :
          /\ c.kind = "return"
          /\ normAgain' = {IF normImpl = "utils"
                           THEN Return(cleanFieldGeneric(c.value, normFieldName))
                           ELSE cleanFieldGenericCli(c.value, normFieldName)}
    /\ UNCHANGED <<normImpl, normField, normFieldName, normResult>>
    /\ UNCHANGED <<apiVars, retryVars, toolVars, adfVars, cacheVars, issueVars, sessionVars, pagerVars, flightVars>>

----------------------------------------------------------------------------
(* cleanJiraIssue and cleanJiraSearchResponse.  The objects these functions *)
(* copy or assign to are kept in a heap, by address; a property holding one *)
(* of them holds a reference.  Field values are never assigned to and stay  *)
(* plain values.                                                            *)

Ref(address) == [t |-> "ref", at |-> address]

RECURSIVE Deref(_, _)
\* the value v stands for, every reference followed
Deref(heap, v) ==
    IF v.t = "ref" THEN Deref(heap, heap[v.at])
    ELSE IF v.t = "array"
    THEN Arr([i \in 1..Len(v.items) |-> Deref(heap, v.items[i])])
    ELSE IF v.t = "object"
    THEN [k \in DOMAIN v |-> IF k = "t" THEN "object" ELSE Deref(heap, v[k])]
    ELSE v

\* the properties of an issue that are objects of their own
Containers(issue) ==
    { k \in {"fields", "renderedFields"} : Get(issue, k).t = "object" }

\* the i-th issue of a response as the JSON parser built it
AllocIssue(issue, i) ==
    [a \in {<<"issue", i>>} \cup { <<k, i>> : k \in Containers(issue) } |->
        IF a[1] = "issue"
        THEN [k \in DOMAIN issue |->
                 IF k \in Containers(issue) THEN Ref(<<k, i>>) ELSE issue[k]]
        ELSE issue[a[1]]]

\* cleanFieldGeneric as the cleanJiraIssue of each file calls it
CleanField(impl, value, fieldName) ==
    IF impl = "utils" THEN Return(cleanFieldGeneric(value, {fieldName}))
    ELSE cleanFieldGenericCli(value, {fieldName})

\* the loop over Object.entries(cleanedIssue.fields)
CleanedEntries(impl, fields) ==
    [k \in Keys(fields) |->
        IF fields[k].t \in {"null", "undefined"} THEN Return(fields[k])
        ELSE CleanField(impl, fields[k], k)]

\* cleanJiraIssue: the heap after the call and what it returned.  The copy
\* { ...issue } is put at the address copy; it holds the references issue
\* holds.  (When a field makes the loop throw, the fields assigned before it
\* are not tracked.)
cleanJiraIssue(heap, issue, impl, copy) ==
    IF issue.t # "ref" THEN [heap |-> heap, result |-> Return(issue)]
    ELSE
        LET cleanedIssue == heap[issue.at]
            fields == Get(cleanedIssue, "fields")
            each == CleanedEntries(impl, heap[fields.at])
            rendered == Get(cleanedIssue, "renderedFields")
            afterFields ==
                IF fields.t = "ref"
                THEN [heap EXCEPT ![fields.at] =
                         [k \in DOMAIN @ |-> IF k = "t" THEN "object" ELSE each[k].value]]
                ELSE heap
            description ==
                IF rendered.t = "ref" THEN Get(heap[rendered.at], "description")
                ELSE JUndefined
            afterRendered ==
                IF Truthy(description) /\ TypeofObject(description)
                THEN [afterFields EXCEPT ![rendered.at] =
                         [k \in DOMAIN @ |->
                             IF k = "description" THEN Str(extractTextFromADF(description))
                             ELSE @[k]]]
                ELSE afterFields
        IN  IF fields.t = "ref" /\ AnyThrows(each)
            THEN [heap |-> heap, result |-> Throw(PropertyOfNothing)]
            ELSE [heap |-> (copy :> cleanedIssue) @@ afterRendered,
                  result |-> Return(Ref(copy))]

RECURSIVE MapCleanJiraIssue(_, _, _)
\* cleanedResponse.issues.map(cleanJiraIssue) from the i-th issue on: the heap
\* after it and the new array's elements.  (first and rest are bound as
\* elements of singleton sets so that each is computed once.)
MapCleanJiraIssue(heap, issues, i) ==
    IF i > Len(issues) THEN [heap |-> heap, items |-> <<>>]
    ELSE The(UNION {
             { [heap |-> rest.heap, items |-> <<first.result.value>> \o rest.items] :
                  rest \in {MapCleanJiraIssue(first.heap, issues, i + 1)} } :
             first \in {cleanJiraIssue(heap, issues[i], "utils", <<"cleanedIssue", i>>)} })

\* cleanJiraSearchResponse of utils.ts
cleanJiraSearchResponse(heap, searchResponse) ==
    IF searchResponse.t # "ref" THEN [heap |-> heap, result |-> Return(searchResponse)]
    ELSE
        LET cleanedResponse == heap[searchResponse.at]
            issues == Get(cleanedResponse, "issues")
        IN  IF issues.t = "ref" /\ heap[issues.at].t = "array"
            THEN The({ [heap |-> (<<"cleanedResponse", 0>> :>
                                     [cleanedResponse EXCEPT
                                         !.issues = Ref(<<"cleanedIssues", 0>>)])
                                 @@ (<<"cleanedIssues", 0>> :> Arr(mapped.items))
                                 @@ mapped.heap,
                        result |-> Return(Ref(<<"cleanedResponse", 0>>))] :
                          mapped \in {MapCleanJiraIssue(heap, heap[issues.at].items, 1)} })
            ELSE [heap |-> (<<"cleanedResponse", 0>> :> cleanedResponse) @@ heap,
                  result |-> Return(Ref(<<"cleanedResponse", 0>>))]

\* the field names of the issues
IssueFieldNames == {"assignee", "project", "comment", "description"}

\* renderedFields as the remote system returns it, if asked to
RenderedFields ==
    { JUndefined,
      [t |-> "object", description |-> Word("<p>a</p>")],
      [t |-> "object", description |-> Description, summary |-> JNull] }

\* issues as the remote system returns them: a summary and one more field
Issues ==
    { [t |-> "object", key |-> Word("K-1"),
       fields |-> [t |-> "object", summary |-> Word("s")] @@ (name :> value)] :
          name \in IssueFieldNames, value \in FieldValues }
    \cup
    { [t |-> "object", key |-> Word("K-1"),
       fields |-> [t |-> "object", summary |-> Word("s"), assignee |-> value],
       renderedFields |-> rendered] :
          value \in {JNull, User}, rendered \in RenderedFields \ {JUndefined} }
    \cup
    { [t |-> "object", key |-> Word("K-1")] }

\* a search response holding the issues
SearchResponse(issues) ==
    [t |-> "object", total |-> Num(Len(issues)), issues |-> Arr(issues)]

\* the objects of a parsed search response
AllocSearchResponse(response) ==
    LET n == Len(response.issues.items)
        top == <<"response", 0>> :> [response EXCEPT !.issues = Ref(<<"issues", 0>>)]
        array == <<"issues", 0>> :> Arr([i \in 1..n |-> Ref(<<"issue", i>>)])
    IN  IF n = 0 THEN top @@ array
        ELSE IF n = 1 THEN top @@ array @@ AllocIssue(response.issues.items[1], 1)
        ELSE top @@ array @@ AllocIssue(response.issues.items[1], 1)
                 @@ AllocIssue(response.issues.items[2], 2)

SearchResponses ==
    { SearchResponse(<<>>) }
    \cup { SearchResponse(<<x>>) : x \in Issues }
    \cup { SearchResponse(<<x, y>>) :
              x \in { i \in Issues : In("renderedFields", i) },
              y \in { i \in Issues : In("renderedFields", i) } }

IdleIssue ==
    /\ cleanCall = [name |-> "none", impl |-> "none"]
    /\ cleanHeap = <<>>
    /\ cleanArg = JUndefined
    /\ cleanBefore = JUndefined
    /\ cleanResult = {}

\* a handler or the command-line tool cleans an issue it fetched
CleanJiraIssue(impl, issue) ==
    /\ cleanCall = [name |-> "none", impl |-> "none"]
    /\ LET heap == IF issue.t = "object" THEN AllocIssue(issue, 1) ELSE <<>>
           arg == IF issue.t = "object" THEN Ref(<<"issue", 1>>) ELSE issue
           cleaned == cleanJiraIssue(heap, arg, impl, <<"cleanedIssue", 1>>)
       IN  /\ cleanCall' = [name |-> "cleanJiraIssue", impl |-> impl]
           /\ cleanArg' = arg
           /\ cleanBefore' = issue
           /\ cleanHeap' = cleaned.heap
           /\ cleanResult' = {cleaned.result}
    /\ UNCHANGED <<apiVars, retryVars, toolVars, adfVars, normVars, cacheVars, sessionVars, pagerVars, flightVars>>

\* a handler cleans the response of a search
CleanJiraSearchResponse(response) ==
    /\ cleanCall = [name |-> "none", impl |-> "none"]
    /\ \E heap \in {IF response.t = "object" THEN AllocSearchResponse(response) ELSE <<>>} :
       LET arg == IF response.t = "object" THEN Ref(<<"response", 0>>) ELSE response
           cleaned == cleanJiraSearchResponse(heap, arg)
       IN  /\ cleanCall' = [name |-> "cleanJiraSearchResponse", impl |-> "utils"]
           /\ cleanArg' = arg
           /\ cleanBefore' = response
           /\ cleanHeap' = cleaned.heap
           /\ cleanResult' = {cleaned.result}
    /\ UNCHANGED <<apiVars, retryVars, toolVars, adfVars, normVars, cacheVars, sessionVars, pagerVars, flightVars>>

----------------------------------------------------------------------------
(* The /mcp routes of server.ts and the transports map.  The transport is   *)
(* the SDK's: it calls onsessioninitialized while it handles an initialize  *)
(* request and onclose when it is closed; when it does so is its choice.    *)

\* what randomUUID can return
SessionIds == {"s1", "s2"}

\* property names every object inherits from Object.prototype
ObjectPrototypeKeys == {"constructor", "__proto__"}

\* the mcp-session-id header of a request, if it has one
SessionHeaders == {{}} \cup { {h} : h \in SessionIds \cup ObjectPrototypeKeys }

\* the server creates at most MaxTransports transports
MaxTransports == 2

\* transports[sessionId]: the transport stored under an own key, the
\* inherited value of a property of Object.prototype, or undefined
Lookup(map, sessionId) ==
    IF sessionId \in DOMAIN map THEN [kind |-> "transport", index |-> map[sessionId]]
    ELSE IF sessionId \in ObjectPrototypeKeys THEN [kind |-> "inherited"]
    ELSE [kind |-> "undefined"]

\* sessionId && transports[sessionId]
KnownSession(map, header) ==
    /\ header # {}
    /\ header # {""}
    /\ Lookup(map, The(header)).kind # "undefined"

\* await transport.handleRequest(...) on what the lookup gave: the transport
\* answers, or the call throws a TypeError and the catch clause answers 500
Dispatch(map, header) ==
    LET found == Lookup(map, The(header)) IN
    IF found.kind = "transport"
    THEN [status |-> {}, dispatched |-> {found.index}]
    ELSE [status |-> {500}, dispatched |-> {}]

IdleSession ==
    /\ transports = <<>>
    /\ created = <<>>
    /\ http = [method |-> "none", header |-> {}, initialize |-> FALSE, before |-> <<>>,
               after |-> <<>>, status |-> {}, dispatched |-> {}, creates |-> FALSE]

\* app.post('/mcp'): reuse the transport of the session, create one for an
\* initialize request without session id, or answer 400
Post(header, isInitializeRequest) ==
    /\ IF KnownSession(transports, header) THEN
           /\ http' = [method |-> "POST", header |-> header,
                       initialize |-> isInitializeRequest,
                       before |-> transports, after |-> transports, creates |-> FALSE]
                      @@ Dispatch(transports, header)
           /\ UNCHANGED <<transports, created>>
       ELSE IF (header = {} \/ header = {""}) /\ isInitializeRequest THEN
           /\ Len(created) < MaxTransports
           /\ created' = Append(created, [state |-> "connected", sessionId |-> {}])
           /\ http' = [method |-> "POST", header |-> header, initialize |-> TRUE,
                       before |-> transports, after |-> transports, creates |-> TRUE,
                       status |-> {}, dispatched |-> {Len(created) + 1}]
           /\ UNCHANGED transports
       ELSE
           /\ http' = [method |-> "POST", header |-> header,
                       initialize |-> isInitializeRequest,
                       before |-> transports, after |-> transports, creates |-> FALSE,
                       status |-> {400}, dispatched |-> {}]
           /\ UNCHANGED <<transports, created>>
    /\ UNCHANGED <<apiVars, retryVars, toolVars, adfVars, normVars, cacheVars, issueVars, pagerVars, flightVars>>

\* handleSessionRequest, for GET and DELETE on /mcp
HandleSessionRequest(method, header) ==
    /\ IF ~KnownSession(transports, header) THEN
           http' = [method |-> method, header |-> header, initialize |-> FALSE,
                    before |-> transports, after |-> transports, creates |-> FALSE,
                    status |-> {400}, dispatched |-> {}]
       ELSE
           http' = [method |-> method, header |-> header, initialize |-> FALSE,
                    before |-> transports, after |-> transports, creates |-> FALSE]
                   @@ Dispatch(transports, header)
    /\ UNCHANGED <<transports, created>>
    /\ UNCHANGED <<apiVars, retryVars, toolVars, adfVars, normVars, cacheVars, issueVars, pagerVars, flightVars>>

\* the session ids in use or used before
UsedSessionIds == UNION { created[i].sessionId : i \in 1..Len(created) }

\* onsessioninitialized: the transport, handling its initialize request, took
\* the id the generator gave it, and the callback stores it
OnSessionInitialized(index, sessionId) ==
    /\ index \in 1..Len(created)
    /\ created[index].state = "connected"
    /\ sessionId \notin UsedSessionIds
    /\ created' = [created EXCEPT ![index] = [state |-> "initialized", sessionId |-> {sessionId}]]
    /\ transports' = (sessionId :> index) @@ transports
    /\ UNCHANGED http
    /\ UNCHANGED <<apiVars, retryVars, toolVars, adfVars, normVars, cacheVars, issueVars, pagerVars, flightVars>>

\* onclose: the transport was closed; its session, if it has one, is deleted
OnClose(index) ==
    /\ index \in 1..Len(created)
    /\ created[index].state # "closed"
    /\ created' = [created EXCEPT ![index].state = "closed"]
    /\ transports' = [k \in DOMAIN transports \ created[index].sessionId |-> transports[k]]
    /\ UNCHANGED http
    /\ UNCHANGED <<apiVars, retryVars, toolVars, adfVars, normVars, cacheVars, issueVars, pagerVars, flightVars>>

----------------------------------------------------------------------------
(* A caller that pages with the offset strategy through jira_search_issues  *)
(* (server.ts) or jira_get_fields (server-stdio.ts): it starts at offset 0,  *)
(* asks again at nextStartAt with the same maxResults, and stops when        *)
(* hasMore is false, the page is empty or the tool reports an error.         *)

PagerTools == {"jira_search_issues", "jira_get_fields"}

\* the page sizes the caller asks for (the request schemas want 1 or more)
PagerPageSizes == {1, 2}

\* the sizes of the remote collection
PagerTotals == 0..(MaxCount + 1)

Min(a, b) == IF a < b THEN a ELSE b

\* the tool call of the caller at offset startAt
PagerCall(p, startAt) ==
    IF p.tool = "jira_get_fields" THEN [name |-> "jira_get_fields"]
    ELSE [name |-> "jira_search_issues", jql |-> {"q1"}, projectKey |-> {"PRJ"},
          maxResults |-> p.maxResults, startAt |-> startAt]

\* the page of a remote collection of p.total issues at offset startAt
ConsistentPage(p, startAt) ==
    [t |-> "object", maxResults |-> {p.maxResults}, isLast |-> {}, nextPageToken |-> {},
     startAt |-> {startAt}, total |-> {p.total},
     issues |-> {IF startAt < p.total THEN Min(p.maxResults, p.total - startAt) ELSE 0}]

\* what the remote search can answer to the request at offset startAt: any
\* mix of the requested, a zero and a missing startAt and maxResults, of the
\* real total, a larger one and none, and of page lengths
PagerPages(p, startAt) ==
    [t : {"object"}, maxResults : {{}, {0}, {p.maxResults}}, isLast : {{}},
     nextPageToken : {{}}, startAt : {{}, {0}, {startAt}},
     total : {{}, {p.total}, {MaxCount + 1}}, issues : {{0}, {1}, {p.maxResults}}]
    \cup {ConsistentPage(p, startAt)}

\* every way the request of the caller can settle
PagerFetched(p, startAt) ==
    IF p.tool = "jira_get_fields"
    THEN { Return([status |-> 200, statusText |-> "OK",
                   body |-> [kind |-> "json", value |-> [t |-> "array", items |-> <<>>]]]),
           Return([status |-> 500, statusText |-> StatusText(500),
                   body |-> [kind |-> "empty"]]) }
    ELSE { Return([status |-> 200, statusText |-> "OK",
                   body |-> [kind |-> "json", value |-> page]]) :
              page \in PagerPages(p, startAt) }
         \cup { Return([status |-> 500, statusText |-> StatusText(500),
                        body |-> [kind |-> "empty"]]) }
         \cup { Throw(f) : f \in TransportFailures }

\* the page in what was fetched, if it is one
FetchedPage(fetched) ==
    IF fetched.kind = "return" /\ fetched.value.status = 200
       /\ fetched.value.body.kind = "json" /\ fetched.value.body.value.t = "object"
    THEN {fetched.value.body.value} ELSE {}

IdlePager ==
    /\ pager = [tool |-> "none", maxResults |-> 0, total |-> 0]
    /\ pagerPc = "idle"
    /\ pagerStartAt = 0
    /\ pagerOnce = {}
    /\ pagerRepeated = FALSE
    /\ pagerPage = {}
    /\ pagerEchoed = TRUE
    /\ pagerConsistent = TRUE

\* the caller starts paging at offset 0
PagerStart(name, maxResults, total) ==
    /\ pagerPc = "idle"
    /\ pager' = [tool |-> name, maxResults |-> maxResults, total |-> total]
    /\ pagerPc' = "request"
    /\ UNCHANGED <<pagerStartAt, pagerOnce, pagerRepeated, pagerPage, pagerEchoed,
                   pagerConsistent>>
    /\ UNCHANGED <<apiVars, retryVars, toolVars, adfVars, normVars, cacheVars, issueVars,
                   sessionVars, flightVars>>

\* one call of the tool: the handler resolves the credentials, the request
\* settles in one of the ways it can, and the handler formats the page
PagerRequest ==
    /\ pagerPc = "request"
    /\ \E fetched \in PagerFetched(pager, pagerStartAt) :
          /\ LET t == PagerCall(pager, pagerStartAt)
                 credentialsResult == getJiraCredentials(env)
             IN  pagerPage' =
                     {IF ~credentialsResult.success
                      THEN ToolHandler(t, credentialsResult)
                      ELSE ToolHandler(t, ToolOperation(t, credentialsResult.data, fetched))}
          /\ pagerEchoed' =
                 (pagerEchoed /\ \A page \in FetchedPage(fetched) :
                                     /\ page.startAt = {pagerStartAt}
                                     /\ page.maxResults = {pager.maxResults})
          /\ pagerConsistent' =
                 (/\ pagerConsistent
                  /\ getJiraCredentials(env).success
                  /\ FetchedPage(fetched) = {ConsistentPage(pager, pagerStartAt)})
    /\ pagerOnce' = pagerOnce \cup {pagerStartAt}
    /\ pagerRepeated' = (pagerRepeated \/ pagerStartAt \in pagerOnce)
    /\ pagerPc' = "decide"
    /\ UNCHANGED <<pager, pagerStartAt>>
    /\ UNCHANGED <<apiVars, retryVars, toolVars, adfVars, normVars, cacheVars, issueVars,
                   sessionVars, flightVars>>

\* the page the caller was given has items
PageHasItems(response) ==
    IF Has(response.json, "issues")
    THEN \E n \in response.json.issues : n > 0
    ELSE response.json.fields # {}

\* the caller goes on to nextStartAt, or stops
PagerDecide ==
    /\ pagerPc = "decide"
    /\ \E response \in pagerPage :
          IF /\ ~response.isError
             /\ response.json.pagination.hasMore
             /\ PageHasItems(response)
          THEN /\ pagerStartAt' = The(response.json.pagination.nextStartAt)
               /\ pagerPc' = "request"
          ELSE /\ pagerPc' = "stopped"
               /\ UNCHANGED pagerStartAt
    /\ UNCHANGED <<pager, pagerOnce, pagerRepeated, pagerPage, pagerEchoed, pagerConsistent>>
    /\ UNCHANGED <<apiVars, retryVars, toolVars, adfVars, normVars, cacheVars, issueVars,
                   sessionVars, flightVars>>

----------------------------------------------------------------------------
(* SimpleCache and the jiraCache instance with its cleanup timer.  The     *)
(* methods are synchronous: each runs to completion before any other code  *)
(* of the process, so each is one step.  lastSet and cacheOp record what   *)
(* the callers did and saw.                                                *)

\* 5 * 60 * 1000, the default of the constructor
DefaultTtlMs == 300000

CacheKeys == {"k1", "k2"}

CacheValues == {"v1", "v2"}

\* the ttlMs argument of set, if given
TtlArgs == {{}, {0}, {1}}

\* the clock is observed within MaxDrift of its start and of one default
\* time-to-live later
MaxDrift == 2

ClockValues == (0..MaxDrift) \cup (DefaultTtlMs..(DefaultTtlMs + MaxDrift))

ClockSteps == {1, DefaultTtlMs}

\* ttlMs || this.defaultTtlMs
TtlOrDefault(ttlMs) == IF ttlMs = {} \/ ttlMs = {0} THEN DefaultTtlMs ELSE The(ttlMs)

\* Date.now() > entry.expiry
Expired(entry) == now > entry.expiry

\* the map without the given keys
Without(map, keys) == [k \in DOMAIN map \ keys |-> map[k]]

IdleCache ==
    /\ now = 0
    /\ cache = <<>>
    /\ lastSet = [k \in CacheKeys |-> {}]
    /\ cacheOp = [name |-> "none", key |-> "", result |-> {}, evicted |-> {}]

\* time passes
Advance(d) ==
    /\ now + d \in ClockValues
    /\ now' = now + d
    /\ cacheOp' = [name |-> "advance", key |-> "", result |-> {}, evicted |-> {}]
    /\ UNCHANGED <<cache, lastSet, apiVars, retryVars, toolVars, adfVars, normVars, issueVars, sessionVars, pagerVars, flightVars>>

\* a variant of CacheSet that keeps an entry the key already has
CacheSetIfAbsent(key, value, ttlMs) ==
    /\ cache' = IF key \in DOMAIN cache THEN cache
                ELSE [k \in DOMAIN cache \cup {key} |->
                         IF k = key
                         THEN [data |-> value, expiry |-> now + TtlOrDefault(ttlMs)]
                         ELSE cache[k]]
    /\ lastSet' = [lastSet EXCEPT ![key] = {[value |-> value, at |-> now, ttl |-> ttlMs]}]
    /\ cacheOp' = [name |-> "set", key |-> key, result |-> {}, evicted |-> {}]
    /\ UNCHANGED <<now, apiVars, retryVars, toolVars, adfVars, normVars, issueVars, sessionVars, pagerVars, flightVars>>

\* set(key, value, ttlMs)
CacheSet(key, value, ttlMs) ==
    /\ cache' = [k \in DOMAIN cache \cup {key} |->
                    IF k = key
                    THEN [data |-> value, expiry |-> now + TtlOrDefault(ttlMs)]
                    ELSE cache[k]]
    /\ lastSet' = [lastSet EXCEPT ![key] = {[value |-> value, at |-> now, ttl |-> ttlMs]}]
    /\ cacheOp' = [name |-> "set", key |-> key, result |-> {}, evicted |-> {}]
    /\ UNCHANGED <<now, apiVars, retryVars, toolVars, adfVars, normVars, issueVars, sessionVars, pagerVars, flightVars>>

\* get(key); result is what it returned, nothing for undefined
CacheGet(key) ==
    /\ IF key \notin DOMAIN cache THEN
           /\ cacheOp' = [name |-> "get", key |-> key, result |-> {}, evicted |-> {}]
           /\ UNCHANGED cache
       ELSE IF Expired(cache[key]) THEN
           /\ cache' = Without(cache, {key})
           /\ cacheOp' = [name |-> "get", key |-> key, result |-> {}, evicted |-> {key}]
       ELSE
           /\ cacheOp' = [name |-> "get", key |-> key, result |-> {cache[key].data},
                          evicted |-> {}]
           /\ UNCHANGED cache
    /\ UNCHANGED <<now, lastSet, apiVars, retryVars, toolVars, adfVars, normVars, issueVars, sessionVars, pagerVars, flightVars>>

\* clear()
CacheClear ==
    /\ cache' = <<>>
    /\ lastSet' = [k \in CacheKeys |-> {}]
    /\ cacheOp' = [name |-> "clear", key |-> "", result |-> {}, evicted |-> DOMAIN cache]
    /\ UNCHANGED <<now, apiVars, retryVars, toolVars, adfVars, normVars, issueVars, sessionVars, pagerVars, flightVars>>

\* a variant of CacheCleanup that tests now >= entry.expiry
CacheCleanupAtExpiry ==
    LET expired == { k \in DOMAIN cache : now >= cache[k].expiry }
    IN  /\ cache' = Without(cache, expired)
        /\ cacheOp' = [name |-> "cleanup", key |-> "", result |-> {}, evicted |-> expired]
        /\ UNCHANGED <<now, lastSet, apiVars, retryVars, toolVars, adfVars, normVars, issueVars, sessionVars, pagerVars, flightVars>>

\* cleanup(), called by the interval timer of the module
CacheCleanup ==
    LET expired == { k \in DOMAIN cache : Expired(cache[k]) }
    IN  /\ cache' = Without(cache, expired)
        /\ cacheOp' = [name |-> "cleanup", key |-> "", result |-> {}, evicted |-> expired]
        /\ UNCHANGED <<now, lastSet, apiVars, retryVars, toolVars, adfVars, normVars, issueVars, sessionVars, pagerVars, flightVars>>

----------------------------------------------------------------------------
(* Operations in flight together.  The process has one thread: a piece of   *)
(* code runs on it until it awaits or returns, and only then does the event *)
(* loop run the next continuation, timer or request handler.  FlightCalls   *)
(* are calls of retryOperation in flight at the same time, each with its    *)
(* own loop variable; beside them a domain operation awaits its fetch and   *)
(* callers use the cache.                                                   *)

FlightCalls == {1, 2}

FlightMaxRetries == {0, 1, 2}

FlightDelays == {1, DefaultDelayMs}

\* how the operation given to retryOperation settles
FlightSettlements == {Return("v1"), Throw(NewError("Error", "e1"))}

\* the operation and the answers of the remote side in flight beside the calls
FlightOpNames == {"getProject"}

FlightFetched ==
    { Return([status |-> 200, statusText |-> "OK",
              body |-> [kind |-> "json", value |-> [t |-> "object"]]]),
      Throw(NewError("FetchError", "request failed, reason: ECONNREFUSED")) }

\* a variant of AwaitTimeout that spins on the thread until the delay is over
SpinTimeout(c) == {c}

\* await new Promise(resolve => setTimeout(resolve, delay)): the timer is
\* set and the call is suspended; nothing occupies the thread meanwhile
AwaitTimeout(c) == {}

\* the thread is free: the event loop can run a continuation, a timer or a
\* handler
ThreadFree == jsThread = {}

IdleFlight ==
    /\ flight = [c \in FlightCalls |->
                    [pc |-> "idle", maxRetries |-> DefaultMaxRetries,
                     delayMs |-> DefaultDelayMs, attempt |-> 1, timers |-> <<>>,
                     overtook |-> FALSE, outcome |-> {}]]
    /\ jsThread = {}

\* some other call of retryOperation is waiting in its backoff delay
OtherInBackoff(c) == \E d \in FlightCalls \ {c} : flight[d].pc = "wait"

\* a caller invokes retryOperation as call c
FlightStart(c, max, delay) ==
    /\ ThreadFree
    /\ flight[c].pc = "idle"
    /\ flight' = [flight EXCEPT ![c] =
                     [@ EXCEPT !.maxRetries = max, !.delayMs = delay, !.attempt = 1,
                               !.pc = IF 1 <= max THEN "call" ELSE "done",
                               !.outcome = IF 1 <= max THEN {} ELSE {Throw(Undefined)}]]
    /\ UNCHANGED jsThread
    /\ UNCHANGED <<apiVars, retryVars, toolVars, adfVars, normVars, cacheVars, issueVars,
                   sessionVars, pagerVars>>

\* the operation awaited by call c settles: the call returns its value,
\* raises its failure (last attempt) or sets its backoff timer and waits
FlightSettles(c, settled) ==
    /\ ThreadFree
    /\ flight[c].pc = "call"
    /\ IF settled.kind = "return" THEN
           /\ flight' = [flight EXCEPT ![c] =
                            [@ EXCEPT !.pc = "done", !.outcome = {settled},
                                      !.overtook = OtherInBackoff(c)]]
           /\ UNCHANGED jsThread
       ELSE LET lastError == normalizeError(settled.exc) IN
            IF flight[c].attempt = flight[c].maxRetries THEN
                /\ flight' = [flight EXCEPT ![c] =
                                 [@ EXCEPT !.pc = "done", !.outcome = {Throw(lastError)},
                                           !.overtook = OtherInBackoff(c)]]
                /\ UNCHANGED jsThread
            ELSE
                /\ flight' = [flight EXCEPT ![c] =
                                 [@ EXCEPT !.pc = "wait",
                                           !.timers = Append(@, flight[c].delayMs
                                                                * Pow2(flight[c].attempt - 1))]]
                /\ jsThread' = AwaitTimeout(c)
    /\ UNCHANGED <<apiVars, retryVars, toolVars, adfVars, normVars, cacheVars, issueVars,
                   sessionVars, pagerVars>>

\* the backoff timer of call c fires: the next iteration of its loop calls
\* the operation again
FlightBackoffElapses(c) ==
    /\ jsThread \subseteq {c}
    /\ flight[c].pc = "wait"
    /\ flight' = [flight EXCEPT ![c] = [@ EXCEPT !.pc = "call", !.attempt = @ + 1]]
    /\ jsThread' = {}
    /\ UNCHANGED <<apiVars, retryVars, toolVars, adfVars, normVars, cacheVars, issueVars,
                   sessionVars, pagerVars>>

\* a handler calls a domain operation, which runs up to its fetch
FlightInvoke(name) ==
    /\ ThreadFree
    /\ pc = "idle"
    /\ Invoke(name, "K1")

\* the fetch of the domain operation settles and the operation finishes
FlightFetchSettles(fetched) ==
    /\ ThreadFree
    /\ Settle(fetched)

\* a caller stores a value in the cache
FlightCacheSet(key) ==
    /\ ThreadFree
    /\ CacheSet(key, "v1", {})

\* a caller looks a key up in the cache
FlightCacheGet(key) ==
    /\ ThreadFree
    /\ CacheGet(key)

\* the interval timer of the cache fires
FlightCacheCleanup ==
    /\ ThreadFree
    /\ CacheCleanup

----------------------------------------------------------------------------
(* Specifications: one per component, the other components staying idle *)

IdleTool ==
    /\ tool = [name |-> "none"]
    /\ toolPc = "idle"
    /\ toolSent = <<>>
    /\ toolFetched = {}
    /\ toolResponse = {}

IdleApi ==
    /\ op = [name |-> "none", arg |-> ""]
    /\ pc = "idle"
    /\ sent = <<>>
    /\ remote = <<>>
    /\ sub = <<>>
    /\ outcome = {}

InitApi ==
    /\ env \in Envs
    /\ IdleApi
    /\ IdleRetry
    /\ IdleTool
    /\ IdleAdf
    /\ IdleNorm
    /\ IdleCache
    /\ IdleIssue
    /\ IdleSession
    /\ IdlePager
    /\ IdleFlight

NextApi ==
    \/ \E name \in OpNames, arg \in OpArgs : Invoke(name, arg)
    \/ \E fetched \in Fetched : Settle(fetched)

SpecApi == InitApi /\ [][NextApi]_vars

InitRetry ==
    /\ env = [apiToken |-> {"tok"}, email |-> {"me@x.org"}, baseUrl |-> {<<"h">>}]
    /\ IdleApi
    /\ IdleRetry
    /\ IdleTool
    /\ IdleAdf
    /\ IdleNorm
    /\ IdleCache
    /\ IdleIssue
    /\ IdleSession
    /\ IdlePager
    /\ IdleFlight

NextRetry ==
    \/ \E max \in MaxRetriesArgs, delay \in DelayMsArgs : retryOperation(max, delay)
    \/ \E settled \in OperationSettlements : OperationSettles(settled)
    \/ BackoffElapses

SpecRetry == InitRetry /\ [][NextRetry]_vars

InitTool ==
    /\ env \in { [apiToken |-> tok, email |-> {"me@x.org"}, baseUrl |-> {<<"h", "/">>}] :
                    tok \in EnvTokens }
    /\ IdleApi
    /\ IdleRetry
    /\ IdleTool
    /\ IdleAdf
    /\ IdleNorm
    /\ IdleCache
    /\ IdleIssue
    /\ IdleSession
    /\ IdlePager
    /\ IdleFlight

NextTool ==
    \/ \E t \in ToolCalls : ToolCall(t)
    \/ \E fetched \in ToolFetched : ToolSettle(fetched)
    \/ \E startAt \in Counts, maxResults \in Counts, total \in Counts :
           ApplyCreatePaginationInfo(startAt, maxResults, total)

SpecTool == InitTool /\ [][NextTool]_vars

InitAdf ==
    /\ env = [apiToken |-> {"tok"}, email |-> {"me@x.org"}, baseUrl |-> {<<"h">>}]
    /\ IdleApi
    /\ IdleRetry
    /\ IdleTool
    /\ IdleAdf
    /\ IdleNorm
    /\ IdleCache
    /\ IdleIssue
    /\ IdleSession
    /\ IdlePager
    /\ IdleFlight

NextAdf ==
    \/ \E input \in AdfInputs : ConvertToADF(input)
    \/ ExtractTextFromADF
    \/ \E adfContent \in ReaderInputs : ExtractTextFromADFOf(adfContent)
    \/ ExtractTextFromADFAgain

SpecAdf == InitAdf /\ [][NextAdf]_vars

InitNorm ==
    /\ env = [apiToken |-> {"tok"}, email |-> {"me@x.org"}, baseUrl |-> {<<"h">>}]
    /\ IdleApi
    /\ IdleRetry
    /\ IdleTool
    /\ IdleAdf
    /\ IdleNorm
    /\ IdleCache
    /\ IdleIssue
    /\ IdleSession
    /\ IdlePager
    /\ IdleFlight

NextNorm ==
    \/ \E field \in FieldValues, fieldName \in FieldNames :
           CleanFieldGeneric(field, fieldName)
    \/ \E field \in FieldValues, fieldName \in FieldNames :
           CleanFieldGenericCli(field, fieldName)
    \/ CleanFieldGenericAgain

SpecNorm == InitNorm /\ [][NextNorm]_vars

InitCache ==
    /\ env = [apiToken |-> {"tok"}, email |-> {"me@x.org"}, baseUrl |-> {<<"h">>}]
    /\ IdleApi
    /\ IdleRetry
    /\ IdleTool
    /\ IdleAdf
    /\ IdleNorm
    /\ IdleCache
    /\ IdleIssue
    /\ IdleSession
    /\ IdlePager
    /\ IdleFlight

NextCache ==
    \/ \E d \in ClockSteps : Advance(d)
    \/ \E key \in CacheKeys, value \in CacheValues, ttlMs \in TtlArgs :
           CacheSet(key, value, ttlMs)
    \/ \E key \in CacheKeys : CacheGet(key)
    \/ CacheClear
    \/ CacheCleanup

SpecCache == InitCache /\ [][NextCache]_vars

InitClean ==
    /\ env = [apiToken |-> {"tok"}, email |-> {"me@x.org"}, baseUrl |-> {<<"h">>}]
    /\ IdleApi
    /\ IdleRetry
    /\ IdleTool
    /\ IdleAdf
    /\ IdleNorm
    /\ IdleCache
    /\ IdleIssue
    /\ IdleSession
    /\ IdlePager
    /\ IdleFlight

NextClean ==
    \/ \E impl \in {"utils", "cli"}, issue \in Issues \cup {JNull, JUndefined} :
           CleanJiraIssue(impl, issue)
    \/ \E response \in SearchResponses \cup {JNull} : CleanJiraSearchResponse(response)

SpecClean == InitClean /\ [][NextClean]_vars

InitSession ==
    /\ env = [apiToken |-> {"tok"}, email |-> {"me@x.org"}, baseUrl |-> {<<"h">>}]
    /\ IdleApi
    /\ IdleRetry
    /\ IdleTool
    /\ IdleAdf
    /\ IdleNorm
    /\ IdleCache
    /\ IdleIssue
    /\ IdleSession
    /\ IdlePager
    /\ IdleFlight

NextSession ==
    \/ \E header \in SessionHeaders, isInitializeRequest \in BOOLEAN :
           Post(header, isInitializeRequest)
    \/ \E method \in {"GET", "DELETE"}, header \in SessionHeaders :
           HandleSessionRequest(method, header)
    \/ \E index \in 1..MaxTransports, sessionId \in SessionIds :
           OnSessionInitialized(index, sessionId)
    \/ \E index \in 1..MaxTransports : OnClose(index)

SpecSession == InitSession /\ [][NextSession]_vars

InitPager ==
    /\ env \in { [apiToken |-> tok, email |-> {"me@x.org"}, baseUrl |-> {<<"h", "/">>}] :
                    tok \in EnvTokens }
    /\ IdleApi
    /\ IdleRetry
    /\ IdleTool
    /\ IdleAdf
    /\ IdleNorm
    /\ IdleCache
    /\ IdleIssue
    /\ IdleSession
    /\ IdlePager
    /\ IdleFlight

NextPager ==
    \/ \E name \in PagerTools, maxResults \in PagerPageSizes, total \in PagerTotals :
           PagerStart(name, maxResults, total)
    \/ PagerRequest
    \/ PagerDecide

SpecPager == InitPager /\ [][NextPager]_vars

\* the caller's loop runs on and every tool call returns
SpecPagerFair == SpecPager /\ WF_vars(NextPager)

InitFlight ==
    /\ env = [apiToken |-> {"tok"}, email |-> {"me@x.org"}, baseUrl |-> {<<"h">>}]
    /\ IdleApi
    /\ IdleRetry
    /\ IdleTool
    /\ IdleAdf
    /\ IdleNorm
    /\ IdleCache
    /\ IdleIssue
    /\ IdleSession
    /\ IdlePager
    /\ IdleFlight

NextFlight ==
    \/ \E c \in FlightCalls, max \in FlightMaxRetries, delay \in FlightDelays :
           FlightStart(c, max, delay)
    \/ \E c \in FlightCalls, settled \in FlightSettlements : FlightSettles(c, settled)
    \/ \E c \in FlightCalls : FlightBackoffElapses(c)
    \/ \E name \in FlightOpNames : FlightInvoke(name)
    \/ \E fetched \in FlightFetched : FlightFetchSettles(fetched)
    \/ \E key \in CacheKeys : FlightCacheSet(key)
    \/ \E key \in CacheKeys : FlightCacheGet(key)
    \/ FlightCacheCleanup

SpecFlight == InitFlight /\ [][NextFlight]_vars

----------------------------------------------------------------------------
(* Properties of jiraApiCall *)

Classified == {"JiraAuthenticationError", "JiraNotFoundError", "JiraApiError"}

NotOkResponse(f) == f.kind = "return" /\ f.value.status \notin 200..299
OkResponse(f) == f.kind = "return" /\ f.value.status \in 200..299

\* C1: for every response that is not 2xx, jiraApiCall returns a failed Result
\* whose error kind is fixed by the status alone, whatever the body: 401 gives a
\* JiraAuthenticationError, 404 a JiraNotFoundError naming the requested
\* endpoint, any other status a JiraApiError with that status and the raw body.
C1_ErrorKindByStatus ==
    \A i \in 1..Len(sub) :
        NotOkResponse(remote[i]) =>
            LET response == remote[i].value
                c == sub[i]
            IN  /\ c.kind = "return"
                /\ ~c.value.success
                /\ response.status = 401 =>
                       c.value.error.class = "JiraAuthenticationError"
                /\ response.status = 404 =>
                       /\ c.value.error.class = "JiraNotFoundError"
                       /\ c.value.error.message =
                              "Resource not found: " \o sent[i].endpoint
                /\ response.status \notin {401, 404} =>
                       /\ c.value.error.class = "JiraApiError"
                       /\ c.value.error.statusCode = response.status
                       /\ c.value.error.response = response.body

\* a 401 whose body carries a provider message list was classified
C1_Witness ==
    \E i \in 1..Len(sub) :
        /\ NotOkResponse(remote[i])
        /\ remote[i].value.status = 401
        /\ remote[i].value.body.kind = "json"
        /\ remote[i].value.body.value.t = "object"
        /\ Has(remote[i].value.body.value, "errorMessages")
        /\ sub[i].kind = "return"

\* C2: jiraApiCall and the operations built on it through withAuth never
\* raise: each completes by returning a Result, and a transport failure is a
\* failed Result holding a plain Error (none of the three classified kinds)
\* that is the underlying failure, or wraps its text when it is not an Error.
C2_NeverRaises ==
    /\ \A i \in 1..Len(sub) :
           /\ sub[i].kind = "return"
           /\ remote[i].kind = "throw" =>
                  /\ ~sub[i].value.success
                  /\ sub[i].value.error.isError
                  /\ sub[i].value.error.class \notin Classified
                  /\ remote[i].exc.isError => sub[i].value.error = remote[i].exc
                  /\ ~remote[i].exc.isError =>
                         sub[i].value.error.message = remote[i].exc.text
    /\ \A o \in outcome :
           /\ o.kind = "return"
           /\ Has(o.value, "success")

\* an operation finished after its request met a transport failure
C2_Witness ==
    /\ pc = "done"
    /\ outcome # {}
    /\ \E i \in 1..Len(sub) : remote[i].kind = "throw"

\* C3: a 2xx response whose body is not empty and is not JSON gives a failed
\* Result holding a plain Error, never one of the three remote-reported kinds.
C3_ParseFailureUnclassified ==
    \A i \in 1..Len(sub) :
        (OkResponse(remote[i]) /\ remote[i].value.body.kind = "garbage") =>
            /\ sub[i].kind = "return"
            /\ ~sub[i].value.success
            /\ sub[i].value.error.isError
            /\ sub[i].value.error.class \notin Classified

\* a 200 with an undecodable body was answered
C3_Witness ==
    \E i \in 1..Len(sub) :
        /\ remote[i].kind = "return"
        /\ remote[i].value.status = 200
        /\ remote[i].value.body.kind = "garbage"
        /\ sub[i].kind = "return"

\* C4: a 2xx response with an empty body gives a successful Result whose data
\* is null, whatever the HTTP method of the request.
C4_EmptyBodyIsNull ==
    \A i \in 1..Len(sub) :
        (OkResponse(remote[i]) /\ remote[i].value.body.kind = "empty") =>
            sub[i] = Return(Ok(JNull))

\* a DELETE answered 204 with no body completed
C4_Witness ==
    \E i \in 1..Len(sub) :
        /\ sent[i].method = "DELETE"
        /\ remote[i].kind = "return"
        /\ remote[i].value.status = 204
        /\ remote[i].value.body.kind = "empty"
        /\ sub[i].kind = "return"

----------------------------------------------------------------------------
(* Properties of retryOperation *)

AllFailed == \A i \in 1..Len(calls) : calls[i].kind = "throw"

\* the operation failed on every invocation but the last, which succeeded
FailedThenSucceeded ==
    /\ calls # <<>>
    /\ calls[Len(calls)].kind = "return"
    /\ \A i \in 1..(Len(calls) - 1) : calls[i].kind = "throw"

\* the part of C5 that does not depend on the sign of delayMs: a success ends
\* the call with that value and is the last invocation; every wait follows a
\* failed attempt and the i-th is delayMs * 2^(i-1)
RetryStopsAtSuccess ==
    /\ \A i \in 1..Len(calls) :
           calls[i].kind = "return" =>
               /\ i = Len(calls)
               /\ retryPc = "done"
               /\ retryOutcome = {calls[i]}
    /\ FailedThenSucceeded =>
           /\ Len(calls) <= maxRetries
           /\ Len(waits) = Len(calls) - 1
    /\ \A i \in 1..Len(waits) : waits[i] = delayMs * 2^(i - 1)

\* C5 as stated: for maxAttempts >= 1 and an operation that fails k-1 times and
\* then succeeds (k <= maxAttempts), retryOperation returns that value after
\* exactly k invocations, and the waits between attempts are strictly
\* increasing, the i-th being baseDelay * 2^(i-1).
C5_AsClaimed ==
    /\ RetryStopsAtSuccess
    /\ FailedThenSucceeded =>
           \A i \in 1..(Len(waits) - 1) : waits[i] < waits[i + 1]

\* C5 amended: as C5, the waits being strictly increasing when baseDelay > 0
\* (with baseDelay = 0 every wait is 0).
C5_RetryUntilSuccess ==
    /\ RetryStopsAtSuccess
    /\ (FailedThenSucceeded /\ delayMs > 0) =>
           \A i \in 1..(Len(waits) - 1) : waits[i] < waits[i + 1]
    /\ (FailedThenSucceeded /\ delayMs = 0) =>
           \A i \in 1..Len(waits) : waits[i] = 0

\* three failures, then a success on the fourth attempt, with a positive delay
C5_Witness ==
    /\ retryPc = "done"
    /\ FailedThenSucceeded
    /\ Len(calls) = 4
    /\ Len(waits) = 3
    /\ delayMs > 0

\* the part of C6 about the number of invocations and waits
RetryExhausts ==
    (retryPc = "done" /\ AllFailed) =>
        /\ Len(calls) = maxRetries
        /\ Len(waits) = (IF calls = <<>> THEN 0 ELSE Len(calls) - 1)
        /\ \A o \in retryOutcome : o.kind = "throw"

\* C6 as stated: when every attempt fails, the operation is invoked exactly
\* maxAttempts times, waits happen only between attempts, and the failure
\* produced by the last invocation is raised.
C6_AsClaimed ==
    /\ RetryExhausts
    /\ (retryPc = "done" /\ AllFailed /\ calls # <<>>) =>
           retryOutcome = {calls[Len(calls)]}

\* C6 amended (maxAttempts >= 1): as C6, the raised failure being the last invocation's failure
\* when that is an Error and otherwise a new Error made from it: with the text
\* of a thrown string, with the message of a thrown object that has one, and
\* with 'Unknown error occurred' for any other value.
C6_RaisesLastFailure ==
    /\ RetryExhausts
    /\ (retryPc = "done" /\ AllFailed /\ calls # <<>>) =>
           \E raised \in retryOutcome :
               LET failure == calls[Len(calls)].exc IN
               /\ retryOutcome = {raised}
               /\ raised.kind = "throw"
               /\ raised.exc.isError
               /\ failure.isError => raised.exc = failure
               /\ ~failure.isError =>
                      /\ raised.exc.class = "Error"
                      /\ raised.exc.message =
                             (IF failure.t = "string" THEN failure.text
                              ELSE IF Has(failure, "message") THEN failure.message
                              ELSE "Unknown error occurred")

\* three attempts failed with different failures, the last one not an Error
C6_Witness ==
    /\ retryPc = "done"
    /\ AllFailed
    /\ maxRetries = 3
    /\ Len(calls) = 3
    /\ Len(waits) = 2
    /\ ~calls[3].exc.isError
    /\ calls[1] # calls[3]

----------------------------------------------------------------------------
(* Properties of the pagination helpers and the search tools *)

TokenKeys == {"maxResults", "hasMore", "isLast", "nextPageToken"}
OffsetKeys == {"startAt", "maxResults", "total", "hasMore", "nextStartAt"}

\* the tool call in flight went to the token-paged endpoint /search/jql
SearchJqlRequested ==
    /\ toolSent # <<>>
    /\ toolSent[1].request.endpoint = "/search/jql?" \o QueryString(toolSent[1].params)

\* the values of the nextPageToken query parameter of a request
TokensSent(sentRequest) ==
    { sentRequest.params[j][2] :
          j \in { k \in 1..Len(sentRequest.params) :
                      sentRequest.params[k][1] = "nextPageToken" } }

\* C7: for every triple (startAt, maxResults, total), createPaginationInfo
\* returns hasMore = (startAt + maxResults < total), a nextStartAt that is
\* defined exactly when hasMore holds and then equals startAt + maxResults,
\* and the three inputs unchanged.
C7_OffsetPageInfo ==
    (tool.name = "createPaginationInfo" /\ toolPc = "done") =>
        /\ toolResponse # {}
        /\ \A r \in toolResponse :
               /\ r.hasMore = (tool.startAt + tool.maxResults < tool.total)
               /\ (r.nextStartAt # {}) = r.hasMore
               /\ r.hasMore => r.nextStartAt = {tool.startAt + tool.maxResults}
               /\ r.startAt = {tool.startAt}
               /\ r.maxResults = {tool.maxResults}
               /\ r.total = {tool.total}

\* createPaginationInfo was applied to a page that ends exactly at the total
C7_Witness ==
    /\ tool.name = "createPaginationInfo"
    /\ toolPc = "done"
    /\ tool.maxResults > 0
    /\ tool.startAt + tool.maxResults = tool.total
    /\ \E r \in toolResponse : ~r.hasMore

\* C8: in every token page state handed to a caller, nextPageToken is present
\* exactly when hasMore is true, and a remote page with isLast = false and no
\* nextPageToken is answered with an error instead of a page state.
C8_TokenPresentIffHasMore ==
    (tool.name = "jira_get_issues_using_jql" /\ toolPc = "done") =>
        \A r \in toolResponse :
            /\ ~r.isError =>
                   ((r.json.pagination.nextPageToken # {}) = r.json.pagination.hasMore)
            /\ \A f \in toolFetched :
                   ( /\ f.kind = "return"
                     /\ f.value.status = 200
                     /\ f.value.body.kind = "json"
                     /\ f.value.body.value.t = "object"
                     /\ f.value.body.value.isLast = {FALSE}
                     /\ f.value.body.value.nextPageToken = {} ) => r.isError

\* C9: when the caller of the JQL search tool passes a nextPageToken, the
\* request sent to the remote API carries exactly that token, and a call
\* without a token sends none.
C9_TokenEchoedVerbatim ==
    tool.name = "jira_get_issues_using_jql" =>
        \A i \in 1..Len(toolSent) : TokensSent(toolSent[i]) = tool.nextPageToken

\* C10: a page of the token-paged endpoint /search/jql is described by the
\* token form only and no total is reported for it; a page of any other
\* operation is never described by the token form.
C10_FormsNeverMixed ==
    (toolPc = "done" /\ tool.name # "createPaginationInfo") =>
        \A r \in toolResponse :
            ~r.isError =>
                IF SearchJqlRequested
                THEN /\ DOMAIN r.json.pagination = TokenKeys
                     /\ Has(r.json, "total") => r.json.total = {}
                ELSE DOMAIN r.json.pagination = OffsetKeys

----------------------------------------------------------------------------
(* Properties of the document transcoder *)

\* the words of a string: its pieces that are not whitespace
WordsOf(s) == SelectSeq(s, LAMBDA p : p \notin Whitespace)

\* s with every run of whitespace collapsed to one space and the leading and
\* trailing whitespace removed: its words, one space between neighbours
CollapsedAndTrimmed(s) ==
    LET words == WordsOf(s)
    IN  [i \in 1..(2 * Len(words) - 1) |->
            IF i % 2 = 1 THEN words[(i + 1) \div 2] ELSE " "]

\* C11: for every plain string s, extractTextFromADF(convertToADF(s)) is s
\* with every run of whitespace collapsed to one space and leading and
\* trailing whitespace removed; for s empty or all whitespace it is the
\* empty string.
C11_RoundTripCollapses ==
    (adfPc = "extracted" /\ adfArg.t = "string") =>
        /\ adfText = {CollapsedAndTrimmed(adfArg.chars)}
        /\ (WordsOf(adfArg.chars) = <<>> => adfText = {<<>>})

C11_Witness ==
    /\ adfPc = "extracted"
    /\ adfArg = Str(<<"\t", "a", " ", "\t">>)
    /\ adfText = {<<"a">>}

\* C12: convertToADF never throws; an input that is a structurally valid
\* document tree comes back with the same keys and values at every level;
\* any other input gives a doc root, version 1, with one paragraph holding
\* one text node whose text is the input's string coercion.
C12_TotalAndUnchanged ==
    adfPc # "idle" =>
        \A c \in adfDoc :
            /\ c.kind = "return"
            /\ IF ADFDocumentSchemaAccepts(adfArg) THEN c.value = adfArg
               ELSE /\ StringOf(adfArg).kind = "return"
                    /\ c.value = Doc(<<Paragraph(<<TextNode(StringOf(adfArg).value)>>)>>)

----------------------------------------------------------------------------
(* Properties of the field normalizer *)

\* the shapes the rules of the normalizer look for
PlainObject(v) == v.t = "object"
ActorShaped(v) == In("emailAddress", v) \/ In("displayName", v)
DocumentShaped(v) == Get(v, "type") = Word("doc")
NameShaped(v) == In("name", v)
ValueShaped(v) == In("value", v)
CommentShaped(v, fieldName) == fieldName = {"comment"} /\ Get(v, "comments").t = "array"

\* C13: the rules apply in the order actor, document, name, value, comment
\* collection (by field name), fallback, and the first rule an object
\* matches alone determines the output.
C13_CascadeOrder ==
    PlainObject(normField) =>
        \A r \in normResult :
            r.kind = "return" =>
                IF ActorShaped(normField) THEN
                    r.value.t = "object" /\ Keys(r.value) = {"displayName", "emailAddress"}
                ELSE IF DocumentShaped(normField) THEN r.value.t = "string"
                ELSE IF NameShaped(normField) THEN
                    /\ r.value.t = "object"
                    /\ "name" \in Keys(r.value)
                    /\ Keys(r.value) \subseteq {"name", "key"}
                ELSE IF ValueShaped(normField) THEN
                    /\ r.value.t = "object"
                    /\ "value" \in Keys(r.value)
                    /\ Keys(r.value) \subseteq {"value", "id"}
                ELSE IF CommentShaped(normField, normFieldName) THEN
                    r.value.t = "object" /\ Keys(r.value) = {"comments"}
                ELSE TRUE

\* C14 as claimed: an object with an emailAddress or displayName key gives
\* exactly {displayName, emailAddress}, each the input's value, or the empty
\* string when the input has no such key.
C14_AsClaimed ==
    (normImpl = "utils" /\ PlainObject(normField) /\ ActorShaped(normField)) =>
        \A r \in normResult :
            /\ r.kind = "return"
            /\ r.value.t = "object"
            /\ Keys(r.value) = {"displayName", "emailAddress"}
            /\ \A k \in {"displayName", "emailAddress"} :
                  r.value[k] = IF In(k, normField) THEN normField[k] ELSE EmptyString

\* C14 amended: ... each the input's value when that value is truthy, and the
\* empty string when the key is absent or its value is falsy.
C14_ActorShape ==
    (normImpl = "utils" /\ PlainObject(normField) /\ ActorShaped(normField)) =>
        \A r \in normResult :
            /\ r.kind = "return"
            /\ r.value.t = "object"
            /\ Keys(r.value) = {"displayName", "emailAddress"}
            /\ \A k \in {"displayName", "emailAddress"} :
                  r.value[k] = IF In(k, normField) /\ Truthy(normField[k])
                               THEN normField[k] ELSE EmptyString

C14_Witness ==
    /\ normImpl = "utils"
    /\ normField = [t |-> "object", displayName |-> Word("A"), emailAddress |-> JNull]
    /\ normResult = {Return([t |-> "object", displayName |-> Word("A"),
                             emailAddress |-> EmptyString])}

\* an object that reaches the name rule of cleanFieldGeneric
ReachesNameRule(v) ==
    PlainObject(v) /\ ~ActorShaped(v) /\ ~DocumentShaped(v) /\ NameShaped(v)

\* C15 as claimed: the name rule gives exactly {name}, and exactly
\* {name, key} when the field name is 'project' and the object has a key.
C15_AsClaimed ==
    (normImpl = "utils" /\ ReachesNameRule(normField)) =>
        \A r \in normResult :
            /\ r.kind = "return"
            /\ r.value = IF normFieldName = {"project"} /\ In("key", normField)
                         THEN [t |-> "object", name |-> normField.name, key |-> normField.key]
                         ELSE [t |-> "object", name |-> normField.name]

\* C15 amended: ... exactly {name, key} when the field name is 'project' and
\* the object has a truthy key, and exactly {name} otherwise.
C15_NameShape ==
    (normImpl = "utils" /\ ReachesNameRule(normField)) =>
        \A r \in normResult :
            /\ r.kind = "return"
            /\ r.value = IF /\ normFieldName = {"project"}
                            /\ In("key", normField)
                            /\ Truthy(normField.key)
                         THEN [t |-> "object", name |-> normField.name, key |-> normField.key]
                         ELSE [t |-> "object", name |-> normField.name]

C15_Witness ==
    /\ normImpl = "utils"
    /\ normFieldName = {"project"}
    /\ normField = [t |-> "object", name |-> Word("Bug"), key |-> EmptyString]
    /\ normResult = {Return([t |-> "object", name |-> Word("Bug")])}

\* the normalizer that was called, applied to a property value
Normalized(v, key) ==
    IF normImpl = "utils" THEN Return(cleanFieldGeneric(v, {key}))
    ELSE cleanFieldGenericCli(v, {key})

\* C16: the normalizer never fails; primitives, null and undefined come back
\* unchanged; an object matching none of the named rules comes back as a
\* copy with the same keys whose every property value has been normalized.
C16_FallbackRecursive ==
    \A r \in normResult :
        /\ r.kind = "return"
        /\ normField.t \notin {"object", "array"} => r.value = normField
        /\ ( /\ PlainObject(normField)
             /\ ~ActorShaped(normField)
             /\ ~DocumentShaped(normField)
             /\ ~NameShaped(normField)
             /\ ~ValueShaped(normField)
             /\ ~CommentShaped(normField, normFieldName) ) =>
               /\ r.value.t = "object"
               /\ Keys(r.value) = Keys(normField)
               /\ \A k \in Keys(normField) : Return(r.value[k]) = Normalized(normField[k], k)

----------------------------------------------------------------------------
(* Properties of SimpleCache *)

\* C17: a key stored by set at time s with time-to-live t (the default when
\* t is omitted) is absent for every get later than s + t, cleanup or not,
\* and that get removes the entry from the store.
C17_ExpiredIsAbsent ==
    cacheOp.name = "get" =>
        \A e \in lastSet[cacheOp.key] :
            now > e.at + (IF e.ttl = {} THEN DefaultTtlMs ELSE The(e.ttl)) =>
                /\ cacheOp.result = {}
                /\ cacheOp.key \notin DOMAIN cache

\* C18: after cleanup() the cache holds no entry whose expiry has passed,
\* and every entry that was unexpired when it ran is still there with the
\* same data and expiry.
C18_CleanupEvictsExpiredOnly ==
    [][cacheOp'.name = "cleanup" =>
          /\ \A k \in DOMAIN cache' : now' <= cache'[k].expiry
          /\ \A k \in DOMAIN cache :
                now <= cache[k].expiry => (k \in DOMAIN cache' /\ cache'[k] = cache[k])
      ]_vars

C18_Witness ==
    /\ cacheOp.name = "cleanup"
    /\ cacheOp.evicted = {"k1"}
    /\ "k2" \in DOMAIN cache
    /\ cache["k2"].expiry = now

\* what a get that returned a value must have found
GetReturnsLastSet ==
    (cacheOp.name = "get" /\ cacheOp.result # {}) =>
        /\ lastSet[cacheOp.key] # {}
        /\ \A e \in lastSet[cacheOp.key] : cacheOp.result = {e.value}
        /\ cacheOp.key \in DOMAIN cache
        /\ now <= cache[cacheOp.key].expiry

\* the entry of a key, if the cache has one
EntryOf(map, k) == IF k \in DOMAIN map THEN {map[k]} ELSE {}

\* a step of set or get leaves the entries of the other keys alone
OtherKeysUntouched ==
    cacheOp'.name \in {"set", "get"} =>
        \A k \in CacheKeys \ {cacheOp'.key} : EntryOf(cache', k) = EntryOf(cache, k)

\* C19: under every interleaving of set, get, cleanup and clear with a
\* non-decreasing clock, get(k) returns a value only if it is the value of
\* the most recent set(k), no clear came after that set, and the entry has
\* not expired; an operation on key k never changes the entry of another key.
C19_GetSeesLastSet == []GetReturnsLastSet /\ [][OtherKeysUntouched /\ now' >= now]_vars

C19_Witness ==
    /\ cacheOp = [name |-> "get", key |-> "k1", result |-> {"v2"}, evicted |-> {}]
    /\ now > 0
    /\ "k2" \in DOMAIN cache
    /\ cache["k2"].data = "v1"

----------------------------------------------------------------------------
(* Properties of getJiraCredentials *)

\* the configuration values that are missing: not set, or set to nothing
MissingValues ==
    (IF Falsy(env.apiToken, "") THEN {"JIRA_API_TOKEN"} ELSE {})
    \cup (IF Falsy(env.email, "") THEN {"JIRA_EMAIL"} ELSE {})
    \cup (IF Falsy(env.baseUrl, <<>>) THEN {"JIRA_BASE_URL"} ELSE {})

\* the messages that name a configuration value
NamingMessages(name) ==
    { name \o " environment variable is required",
      name \o " environment variable is required (e.g., https://yourcompany.atlassian.net)" }

\* C20: getJiraCredentials succeeds only when all three configuration values
\* are present; when any is absent it returns a failed Result of the
\* authentication kind whose message names a value that is missing, and no
\* credential bundle, complete or partial; the operation then sends nothing.
C20_AllOrNothing ==
    pc # "idle" =>
        LET result == getJiraCredentials(env) IN
        /\ result.success =>
              /\ env.apiToken # {} /\ env.email # {} /\ env.baseUrl # {}
              /\ DOMAIN result.data = {"email", "apiToken", "baseUrl"}
              /\ result.data.email \in env.email
              /\ result.data.apiToken \in env.apiToken
              /\ Len(sent) >= 1
        /\ (env.apiToken = {} \/ env.email = {} \/ env.baseUrl = {}) =>
              /\ ~result.success
              /\ DOMAIN result = {"success", "error"}
              /\ result.error.class = "JiraAuthenticationError"
              /\ \E name \in MissingValues : result.error.message \in NamingMessages(name)
              /\ sent = <<>>
              /\ outcome = {Return(result)}

C20_Witness ==
    /\ pc = "done"
    /\ env.apiToken = {"tok"} /\ env.email = {} /\ env.baseUrl = {}
    /\ \E c \in outcome :
          /\ ~c.value.success
          /\ c.value.error.message = "JIRA_EMAIL environment variable is required"

\* C21: every credential bundle of a successful getJiraCredentials has a
\* non-empty email, apiToken and baseUrl, and its baseUrl does not end with
\* a path separator, whatever origin is configured; the requests built on
\* the bundle carry that base.
C21_BundleWellFormed ==
    pc # "idle" =>
        LET result == getJiraCredentials(env) IN
        result.success =>
            /\ result.data.email # ""
            /\ result.data.apiToken # ""
            /\ result.data.baseUrl # <<>>
            /\ result.data.baseUrl[Len(result.data.baseUrl)] # "/"
            /\ \A i \in 1..Len(sent) : sent[i].base = result.data.baseUrl
\* C22: extractTextFromADF applied to its own output returns that output,
\* for a document tree, a node array, a string, null and undefined.
C22_IdempotentOnOutput ==
    adfPc = "reread" => adfAgain = adfText

C22_Witness ==
    /\ adfPc = "reread"
    /\ adfArg = Doc(<<Node("panel", <<TextNode(<<"m", " ">>), TextNode(<<"a">>)>>)>>)
    /\ adfText = {<<"m", " ", "a">>}
    /\ adfAgain = adfText

\* the media and emoji kinds
MediaKinds == {"mediaSingle", "media", "emoji"}

RECURSIVE WithoutMedia(_)
\* v with every media, mediaSingle and emoji subtree removed
WithoutMedia(v) ==
    IF v.t = "array"
    THEN LET kept == SelectSeq(v.items,
                         LAMBDA x : Get(x, "type") \notin { Word(k) : k \in MediaKinds })
         IN  Arr([i \in 1..Len(kept) |-> WithoutMedia(kept[i])])
    ELSE IF In("content", v)
    THEN [v EXCEPT !.content = WithoutMedia(@)]
    ELSE v

\* a node of a kind the reader has no case for, with children
UnrecognizedWithChildren(v) ==
    /\ Get(v, "type") = Word("panel")
    /\ Get(v, "content").t = "array"

\* the nodes a reader input holds
Nodes(v) ==
    IF v.t = "array" THEN v.items
    ELSE IF Get(v, "content").t = "array" THEN Get(v, "content").items
    ELSE <<>>

\* nodes with the i-th node replaced by its children
WithHoisted(nodes, i) ==
    SubSeq(nodes, 1, i - 1) \o nodes[i].content.items \o SubSeq(nodes, i + 1, Len(nodes))

\* C23: no text inside a media, mediaSingle or emoji node at any depth is
\* part of the extracted text, so that removing those subtrees leaves the
\* extracted text unchanged; the text under a node of an unrecognized kind
\* that has children is included.
C23_MediaContributesNothing ==
    adfPc \in {"read", "reread"} =>
        /\ adfText = {extractTextFromADF(WithoutMedia(adfArg))}
        /\ \A i \in 1..Len(Nodes(adfArg)) :
               UnrecognizedWithChildren(Nodes(adfArg)[i]) =>
                   adfText = {extractTextFromADF(Arr(WithHoisted(Nodes(adfArg), i)))}

C23_Witness ==
    /\ adfPc = "read"
    /\ \E x \in Leaves :
          /\ Get(x, "type") = Word("emoji")
          /\ Get(x, "text") = Word("m")
          /\ adfArg = Doc(<<Node("panel", <<TextNode(<<"a">>), x>>)>>)
    /\ adfText = {<<"a">>}

----------------------------------------------------------------------------
(* Properties of the composition of operations *)

\* the number of jiraApiCall invocations the body of an operation makes at most
CallsOf(name) == IF name = "getConnectionInfo" THEN 2 ELSE 1

\* C25: each invocation of jiraApiCall issues exactly one request, whatever
\* the fetch settles with: every call that returned consumed one request, a
\* call in progress has one request outstanding, and no operation issues a
\* request for the same endpoint again.
C25_OneRequestPerCall ==
    /\ Len(remote) = Len(sub)
    /\ pc = "fetch" => Len(sent) = Len(sub) + 1
    /\ pc = "done" => Len(sent) = Len(sub)
    /\ Len(sent) <= CallsOf(op.name)
    /\ \A i, j \in 1..Len(sent) : sent[i].endpoint = sent[j].endpoint => i = j

C25_Witness ==
    /\ pc = "done"
    /\ op.name = "getProject"
    /\ Len(remote) = 1
    /\ remote[1].kind = "throw"
    /\ Len(sent) = 1
    /\ \E r \in outcome : r.kind = "return" /\ ~r.value.success

\* C27: the first failing step ends a composed operation.  When the
\* credentials fail, no request is issued and the operation returns that
\* failed Result.  getConnectionInfo asks for /myself only after /serverInfo
\* succeeded, and returns the Result of the sub-call that failed first.
C27_FirstFailureEnds ==
    /\ (pc = "done" /\ ~getJiraCredentials(env).success) =>
           /\ sent = <<>>
           /\ outcome = {Return(getJiraCredentials(env))}
    /\ op.name = "getConnectionInfo" =>
           /\ Len(sent) = 2 =>
                  /\ sent[2].endpoint = "/myself"
                  /\ sub[1].kind = "return"
                  /\ sub[1].value.success
           /\ \A i \in 1..Len(sub) :
                  (sub[i].kind = "return" /\ ~sub[i].value.success) =>
                      /\ i = Len(sub)
                      /\ Len(sent) = i
                      /\ pc = "done"
                      /\ outcome = {Return(sub[i].value)}

C27_Witness ==
    /\ pc = "done"
    /\ op.name = "getConnectionInfo"
    /\ Len(sent) = 2
    /\ sub[1].value.success
    /\ ~sub[2].value.success
    /\ sub[2].value.error.class = "JiraAuthenticationError"
    /\ outcome = {Return(sub[2].value)}

----------------------------------------------------------------------------
(* Properties of cleaning twice *)

RECURSIVE RewritesCommentAuthors(_, _)
\* the comment rule of cli-get-issue.ts meets, in field or below it, a
\* comments collection with an author who has an email address
RewritesCommentAuthors(field, fieldName) ==
    IF ~Truthy(field) \/ ~TypeofObject(field) THEN FALSE
    ELSE IF fieldName = {"comment"} THEN
        /\ Get(field, "comments").t = "array"
        /\ \E i \in 1..Len(field.comments.items) :
               Truthy(Get(Get(field.comments.items[i], "author"), "emailAddress"))
    ELSE IF field.t = "array" THEN
        \E i \in 1..Len(field.items) : RewritesCommentAuthors(field.items[i], fieldName)
    ELSE IF \E k \in {"emailAddress", "displayName", "name", "value"} : In(k, field)
    THEN FALSE
    ELSE IF Get(field, "type") = Word("doc") THEN FALSE
    ELSE \E key \in Keys(field) : RewritesCommentAuthors(field[key], {key})

----------------------------------------------------------------------------
(* Properties of cleanJiraIssue and cleanJiraSearchResponse *)

\* C28: cleanJiraIssue and cleanJiraSearchResponse leave their argument
\* unchanged: after the call the argument, its fields and renderedFields
\* objects and every value below them are what they were before the call.
C28_ArgumentUnchanged ==
    cleanCall.name # "none" => Deref(cleanHeap, cleanArg) = cleanBefore

----------------------------------------------------------------------------
(* Properties of the session map *)

\* the session ids of the transports that are initialized and not closed
OpenSessions ==
    UNION { created[i].sessionId : i \in { j \in 1..Len(created) :
                                            created[j].state = "initialized" } }

\* the last request named no session that was in the map
WithoutSession ==
    /\ http.method # "none"
    /\ \A h \in http.header : h \notin DOMAIN http.before

\* C30: a session id is in the transports map exactly from its
\* onsessioninitialized callback until its onclose callback; a POST, GET or
\* DELETE on /mcp whose mcp-session-id is not in the map is not dispatched to
\* any transport, is answered with status 400 and leaves the map unchanged;
\* only a POST without session id that is an initialize request creates a
\* transport.
C30_SessionMap ==
    /\ DOMAIN transports = OpenSessions
    /\ \A k \in DOMAIN transports : created[transports[k]].sessionId = {k}
    /\ (WithoutSession /\ http.header # {}) =>
           /\ http.dispatched = {}
           /\ http.status = {400}
           /\ http.after = http.before
    /\ (WithoutSession /\ http.header = {} /\ ~http.creates) =>
           /\ http.dispatched = {}
           /\ http.status = {400}
           /\ http.after = http.before
    /\ http.creates =>
           /\ http.method = "POST"
           /\ http.header = {}
           /\ http.initialize

----------------------------------------------------------------------------
(* Properties of paging with the offset strategy *)

\* the offsets 0, maxResults, 2 * maxResults, ... below the total
OffsetsBelowTotal ==
    { k \in 0..(MaxCount + 1) : k % pager.maxResults = 0 /\ k < pager.total }

\* with a consistent remote side the caller requests each offset below the
\* total, and offset 0, exactly once
ConsistentOffsetsOnce ==
    (pagerPc = "stopped" /\ pagerConsistent) =>
        /\ pagerOnce = OffsetsBelowTotal \cup {0}
        /\ ~pagerRepeated

----------------------------------------------------------------------------
(* Properties of operations in flight together *)

InBackoff(c) == flight[c].pc = "wait"

\* the next step of every operation in flight beside call c can be taken
OthersCanStep(c) ==
    /\ \A d \in FlightCalls \ {c} :
          /\ flight[d].pc = "idle" =>
                 \A max \in FlightMaxRetries, delay \in FlightDelays :
                     ENABLED FlightStart(d, max, delay)
          /\ flight[d].pc = "call" =>
                 /\ \A settled \in FlightSettlements : ENABLED FlightSettles(d, settled)
                 /\ ENABLED (FlightSettles(d, Return("v1")) /\ flight'[d].pc = "done")
          /\ flight[d].pc = "wait" =>
                 ENABLED (FlightBackoffElapses(d) /\ flight'[d].pc = "call")
    /\ pc = "idle" => \A name \in FlightOpNames : ENABLED FlightInvoke(name)
    /\ pc = "fetch" =>
           \A fetched \in FlightFetched :
               ENABLED (FlightFetchSettles(fetched) /\ pc' = "done")
    /\ \A key \in CacheKeys : ENABLED FlightCacheSet(key) /\ ENABLED FlightCacheGet(key)
    /\ ENABLED FlightCacheCleanup

\* C26: while a call of retryOperation waits in its backoff delay, every
\* other operation in flight (another call of retryOperation, idle, awaiting
\* its operation or in its own backoff; a domain operation awaiting its
\* fetch; get, set and cleanup of the cache) can take its next step and
\* complete: the delay holds back the waiting call only.
C26_BackoffBlocksNothingElse ==
    \A c \in FlightCalls : InBackoff(c) => OthersCanStep(c)

\* call 1 still waits in its first backoff delay; meanwhile call 2 went
\* through a backoff of its own and returned, the domain operation finished
\* and the cache answered a get
C26_Witness ==
    /\ flight[1].pc = "wait"
    /\ flight[1].attempt = 1
    /\ flight[2].pc = "done"
    /\ flight[2].attempt = 2
    /\ flight[2].overtook
    /\ flight[2].outcome = {Return("v1")}
    /\ pc = "done"
    /\ cacheOp.name = "get"
    /\ cacheOp.result = {"v1"}

====
